---- MODULE Spec2Model ----
(***************************************************************************)
(* A model of the pac_glm camera core: Transform (pac-math), Camera,       *)
(* OrbitCamera and FlyCamera (pac-render) and FixedTimestep (pac-window).  *)
(*                                                                         *)
(* Every f32 of the program is a fixed-point integer here: the integer n   *)
(* stands for the number n / SCALE, so 1.48 is 1480 and an angle is held   *)
(* in milliradians.  Products and quotients round to the nearest unit, as  *)
(* a float operation rounds to the nearest representable value.            *)
(***************************************************************************)
EXTENDS Integers, Sequences, FiniteSets, TLC

VARIABLES
    orbit,      \* the OrbitCamera under test (camera.rs:133-157)
    fly,        \* the FlyCamera under test (camera.rs:285-301)
    fixed,      \* the FixedTimestep under test (time.rs:42-46)
    loop,       \* the frame loop draining the FixedTimestep
    calls,      \* the calls made so far, the constructor first
    steps,      \* number of calls the driver has made (bounded by MaxSteps)
    panicked,   \* TRUE once a call has aborted in f32::clamp
    transform,  \* the Transform under test (transform.rs:4-8)
    camera,     \* the Camera under test (camera.rs:11-22)
    input,      \* the InputState under test (input.rs:13-34)
    input_map,  \* the InputMap under test (input.rs:201-206)
    fps_counter \* the FpsCounter under test (time.rs:85-92)

vars == <<orbit, fly, fixed, loop, calls, steps, panicked, transform,
          camera, input, input_map, fps_counter>>

----------------------------------------------------------------------------
(* Fixed-point arithmetic                                                  *)

SCALE == 1000

Abs(a) == IF a < 0 THEN -a ELSE a

Sign(a) == IF a < 0 THEN -1 ELSE 1

Min(a, b) == IF a <= b THEN a ELSE b

Max(a, b) == IF a >= b THEN a ELSE b

\* a / b for integers, rounded to the nearest (b # 0)
RDiv(a, b) == Sign(a) * Sign(b) * ((Abs(a) + (Abs(b) \div 2)) \div Abs(b))

\* f32 multiplication and division
Mul(a, b) == RDiv(a * b, SCALE)

Div(a, b) == RDiv(a * SCALE, b)

\* largest r in lo..hi with r * r <= n
RECURSIVE IsqrtIn(_, _, _)
IsqrtIn(n, lo, hi) ==
    IF lo >= hi THEN lo
    ELSE LET mid == (lo + hi + 1) \div 2
         IN  IF mid * mid <= n THEN IsqrtIn(n, mid, hi) ELSE IsqrtIn(n, lo, mid - 1)

\* f32::sqrt, for 0 <= a <= 2000 * SCALE
Sqrt(a) ==
    LET n == a * SCALE
        r == IsqrtIn(n, 0, 46340)
    IN  IF n - r * r <= (r + 1) * (r + 1) - n THEN r ELSE r + 1

\* f32::clamp(self, min, max); the caller handles the panic for min > max
Clamp(x, min, max) == IF x < min THEN min ELSE IF x > max THEN max ELSE x

----------------------------------------------------------------------------
(* f32::sin and f32::cos on milliradians                                   *)

PI == 3142

HALF_PI == 1571

TWO_PI == 6283

\* the angle brought into (-PI, PI]
WrapAngle(x) ==
    LET m == x % TWO_PI
    IN  IF m > PI THEN m - TWO_PI ELSE m

\* Taylor series of sin for |x| <= HALF_PI
SinSeries(x) ==
    LET x2 == Mul(x, x)
        t4 == SCALE - RDiv(x2, 72)
        t3 == SCALE - RDiv(Mul(x2, t4), 42)
        t2 == SCALE - RDiv(Mul(x2, t3), 20)
        t1 == SCALE - RDiv(Mul(x2, t2), 6)
    IN  Mul(x, t1)

\* Taylor series of cos for |x| <= HALF_PI
CosSeries(x) ==
    LET x2 == Mul(x, x)
        t4 == SCALE - RDiv(x2, 56)
        t3 == SCALE - RDiv(Mul(x2, t4), 30)
        t2 == SCALE - RDiv(Mul(x2, t3), 12)
    IN  SCALE - RDiv(Mul(x2, t2), 2)

Sin(x) ==
    LET w == WrapAngle(x)
    IN  IF w > HALF_PI THEN SinSeries(PI - w)
        ELSE IF w < -HALF_PI THEN SinSeries(-PI - w)
        ELSE SinSeries(w)

Cos(x) ==
    LET w == WrapAngle(x)
    IN  IF w > HALF_PI THEN -CosSeries(PI - w)
        ELSE IF w < -HALF_PI THEN -CosSeries(-PI - w)
        ELSE CosSeries(w)

----------------------------------------------------------------------------
(* glam::Vec3.  A vector is <<x, y, z>>; NaN3 is the vector whose          *)
(* components are all NaN (the result of normalizing a zero vector).       *)

NaN3 == <<>>

Vec3(x, y, z) == <<x, y, z>>

ZERO == <<0, 0, 0>>

ONE == <<SCALE, SCALE, SCALE>>

X == <<SCALE, 0, 0>>

Y == <<0, SCALE, 0>>

Z == <<0, 0, SCALE>>

NEG_X == <<-SCALE, 0, 0>>

NEG_Y == <<0, -SCALE, 0>>

NEG_Z == <<0, 0, -SCALE>>

IsNaN3(v) == v = NaN3

VAdd(a, b) ==
    IF IsNaN3(a) \/ IsNaN3(b) THEN NaN3
    ELSE <<a[1] + b[1], a[2] + b[2], a[3] + b[3]>>

VSub(a, b) ==
    IF IsNaN3(a) \/ IsNaN3(b) THEN NaN3
    ELSE <<a[1] - b[1], a[2] - b[2], a[3] - b[3]>>

VNeg(a) == IF IsNaN3(a) THEN NaN3 ELSE <<-a[1], -a[2], -a[3]>>

\* Vec3 * f32
VScale(a, s) ==
    IF IsNaN3(a) THEN NaN3 ELSE <<Mul(a[1], s), Mul(a[2], s), Mul(a[3], s)>>

Dot(a, b) == Mul(a[1], b[1]) + Mul(a[2], b[2]) + Mul(a[3], b[3])

Cross(a, b) ==
    IF IsNaN3(a) \/ IsNaN3(b) THEN NaN3
    ELSE <<Mul(a[2], b[3]) - Mul(b[2], a[3]),
           Mul(a[3], b[1]) - Mul(b[3], a[1]),
           Mul(a[1], b[2]) - Mul(b[1], a[2])>>

\* Vec3::normalize: v * (1 / |v|).  The vector is first scaled by its
\* largest component so that the squares stay in range; a zero vector
\* gives 0 * inf = NaN in every component.
Normalize(v) ==
    IF IsNaN3(v) \/ v = ZERO THEN NaN3
    ELSE LET m   == Max(Abs(v[1]), Max(Abs(v[2]), Abs(v[3])))
             u   == <<RDiv(v[1] * SCALE, m), RDiv(v[2] * SCALE, m), RDiv(v[3] * SCALE, m)>>
             len == Sqrt(Dot(u, u))
         IN  <<Div(u[1], len), Div(u[2], len), Div(u[3], len)>>

\* Vec3::normalize_or_zero
NormalizeOrZero(v) ==
    IF IsNaN3(v) \/ v = ZERO THEN ZERO ELSE Normalize(v)

----------------------------------------------------------------------------
(* glam::Quat.  A quaternion is <<x, y, z, w>>; NaNQ has every component   *)
(* NaN.                                                                    *)

NaNQ == <<>>

IDENTITY_QUAT == <<0, 0, 0, SCALE>>

\* Quat::from_rotation_x(angle): (sin(angle / 2), 0, 0, cos(angle / 2))
from_rotation_x(angle) ==
    LET half == Mul(angle, SCALE \div 2)
    IN  <<Sin(half), 0, 0, Cos(half)>>

\* Quat::from_rotation_y(angle): (0, sin(angle / 2), 0, cos(angle / 2))
from_rotation_y(angle) ==
    LET half == Mul(angle, SCALE \div 2)
    IN  <<0, Sin(half), 0, Cos(half)>>

\* Quat * Quat (Hamilton product)
QMul(a, b) ==
    IF a = NaNQ \/ b = NaNQ THEN NaNQ
    ELSE <<Mul(a[4], b[1]) + Mul(a[1], b[4]) + Mul(a[2], b[3]) - Mul(a[3], b[2]),
           Mul(a[4], b[2]) - Mul(a[1], b[3]) + Mul(a[2], b[4]) + Mul(a[3], b[1]),
           Mul(a[4], b[3]) + Mul(a[1], b[2]) - Mul(a[2], b[1]) + Mul(a[3], b[4]),
           Mul(a[4], b[4]) - Mul(a[1], b[1]) - Mul(a[2], b[2]) - Mul(a[3], b[3])>>

\* Quat * Vec3: v * (w^2 - b.b) + b * (2 (v.b)) + (b x v) * (2 w), b = q.xyz
QRotate(q, v) ==
    IF q = NaNQ \/ IsNaN3(v) THEN NaN3
    ELSE LET w  == q[4]
             b  == <<q[1], q[2], q[3]>>
             b2 == Dot(b, b)
         IN  VAdd(VAdd(VScale(v, Mul(w, w) - b2), VScale(b, Dot(v, b) * 2)),
                  VScale(Cross(b, v), w * 2))

\* Quat::from_mat4 of the matrix with columns x_axis, y_axis, z_axis
\* (glam's from_rotation_axes); a NaN entry makes every component NaN
from_rotation_axes(x_axis, y_axis, z_axis) ==
    IF IsNaN3(x_axis) \/ IsNaN3(y_axis) \/ IsNaN3(z_axis) THEN NaNQ
    ELSE LET m00 == x_axis[1]
             m01 == x_axis[2]
             m02 == x_axis[3]
             m10 == y_axis[1]
             m11 == y_axis[2]
             m12 == y_axis[3]
             m20 == z_axis[1]
             m21 == z_axis[2]
             m22 == z_axis[3]
         IN  IF m22 <= 0
             THEN LET dif10 == m11 - m00
                      omm22 == SCALE - m22
                  IN  IF dif10 <= 0
                      THEN LET four_xsq == omm22 - dif10
                               inv4x    == Div(SCALE \div 2, Sqrt(four_xsq))
                           IN  <<Mul(four_xsq, inv4x), Mul(m01 + m10, inv4x),
                                 Mul(m02 + m20, inv4x), Mul(m12 - m21, inv4x)>>
                      ELSE LET four_ysq == omm22 + dif10
                               inv4y    == Div(SCALE \div 2, Sqrt(four_ysq))
                           IN  <<Mul(m01 + m10, inv4y), Mul(four_ysq, inv4y),
                                 Mul(m12 + m21, inv4y), Mul(m20 - m02, inv4y)>>
             ELSE LET sum10 == m11 + m00
                      opm22 == SCALE + m22
                  IN  IF sum10 <= 0
                      THEN LET four_zsq == opm22 - sum10
                               inv4z    == Div(SCALE \div 2, Sqrt(four_zsq))
                           IN  <<Mul(m02 + m20, inv4z), Mul(m12 + m21, inv4z),
                                 Mul(four_zsq, inv4z), Mul(m01 - m10, inv4z)>>
                      ELSE LET four_wsq == opm22 + sum10
                               inv4w    == Div(SCALE \div 2, Sqrt(four_wsq))
                           IN  <<Mul(m12 - m21, inv4w), Mul(m20 - m02, inv4w),
                                 Mul(m01 - m10, inv4w), Mul(four_wsq, inv4w)>>

----------------------------------------------------------------------------
(* glam::Mat4.  A matrix is the tuple of its four columns, each <<x, y, z, *)
(* w>>; NaNM has NaN entries.                                              *)

NaNM == <<>>

\* Mat4::IDENTITY
IDENTITY_MAT4 ==
    <<<<SCALE, 0, 0, 0>>, <<0, SCALE, 0, 0>>, <<0, 0, SCALE, 0>>, <<0, 0, 0, SCALE>>>>

\* Mat4::from_translation
from_translation(translation) ==
    <<<<SCALE, 0, 0, 0>>, <<0, SCALE, 0, 0>>, <<0, 0, SCALE, 0>>,
      <<translation[1], translation[2], translation[3], SCALE>>>>

\* Mat4::from_scale
Mat4_from_scale(scale) ==
    <<<<scale[1], 0, 0, 0>>, <<0, scale[2], 0, 0>>, <<0, 0, scale[3], 0>>, <<0, 0, 0, SCALE>>>>

\* Vec4 * f32
V4Scale(a, s) == <<Mul(a[1], s), Mul(a[2], s), Mul(a[3], s), Mul(a[4], s)>>

\* Mat4::from_scale_rotation_translation: the axes of the rotation
\* (quat_to_axes), each multiplied by its scale, and the translation column
from_scale_rotation_translation(scale, rotation, translation) ==
    IF IsNaN3(scale) \/ rotation = NaNQ \/ IsNaN3(translation) THEN NaNM
    ELSE LET x  == rotation[1]
             y  == rotation[2]
             z  == rotation[3]
             w  == rotation[4]
             x2 == x + x
             y2 == y + y
             z2 == z + z
             xx == Mul(x, x2)
             xy == Mul(x, y2)
             xz == Mul(x, z2)
             yy == Mul(y, y2)
             yz == Mul(y, z2)
             zz == Mul(z, z2)
             wx == Mul(w, x2)
             wy == Mul(w, y2)
             wz == Mul(w, z2)
             x_axis == <<SCALE - (yy + zz), xy + wz, xz - wy, 0>>
             y_axis == <<xy - wz, SCALE - (xx + zz), yz + wx, 0>>
             z_axis == <<xz + wy, yz - wx, SCALE - (xx + yy), 0>>
         IN  <<V4Scale(x_axis, scale[1]), V4Scale(y_axis, scale[2]),
               V4Scale(z_axis, scale[3]),
               <<translation[1], translation[2], translation[3], SCALE>>>>

----------------------------------------------------------------------------
(* pac_math::Transform (transform.rs)                                      *)

IDENTITY == [position |-> ZERO, rotation |-> IDENTITY_QUAT, scale |-> ONE]

\* forward taken along +Z
forward_plus_z(t) == QRotate(t.rotation, Z)

\* Transform::forward: rotation * NEG_Z
forward(t) == QRotate(t.rotation, NEG_Z)

\* Transform::back: rotation * Z
back(t) == QRotate(t.rotation, Z)

\* Transform::left: rotation * NEG_X
left(t) == QRotate(t.rotation, NEG_X)

\* Transform::down: rotation * NEG_Y
down(t) == QRotate(t.rotation, NEG_Y)

\* Transform::right: rotation * X
right(t) == QRotate(t.rotation, X)

\* Transform::up: rotation * Y
up(t) == QRotate(t.rotation, Y)

\* Transform::from_position
from_position(position) ==
    [position |-> position, rotation |-> IDENTITY_QUAT, scale |-> ONE]

\* Transform::from_rotation
from_rotation(rotation) ==
    [position |-> ZERO, rotation |-> rotation, scale |-> ONE]

\* Transform::from_scale
from_scale(scale) ==
    [position |-> ZERO, rotation |-> IDENTITY_QUAT, scale |-> scale]

\* Transform::with_position
with_position(t, position) == [t EXCEPT !.position = position]

\* Transform::with_rotation
with_rotation(t, rotation) == [t EXCEPT !.rotation = rotation]

\* Transform::with_scale
with_scale(t, scale) == [t EXCEPT !.scale = scale]

\* model_matrix with the translation column scaled like the axes
model_matrix_scaled_translation(t) ==
    LET m == from_scale_rotation_translation(t.scale, t.rotation, t.position)
    IN  IF m = NaNM THEN NaNM
        ELSE <<m[1], m[2], m[3],
               <<Mul(m[4][1], t.scale[1]), Mul(m[4][2], t.scale[2]),
                 Mul(m[4][3], t.scale[3]), SCALE>>>>

\* Transform::model_matrix
model_matrix(t) == from_scale_rotation_translation(t.scale, t.rotation, t.position)

\* Transform::translate
translate(t, translation) == [t EXCEPT !.position = VAdd(t.position, translation)]

\* rotate_by with the product taken in the other order (local space)
rotate_by_local(t, rotation) == [t EXCEPT !.rotation = QMul(t.rotation, rotation)]

\* Transform::rotate_by
rotate_by(t, rotation) == [t EXCEPT !.rotation = QMul(rotation, t.rotation)]

\* Transform::scale_by (Vec3 *= Vec3, component by component)
scale_by(t, scale) ==
    [t EXCEPT !.scale = <<Mul(t.scale[1], scale[1]), Mul(t.scale[2], scale[2]),
                          Mul(t.scale[3], scale[3])>>]

\* Transform::look_at(target, up)
look_at(t, target, world_up) ==
    LET look_dir     == Normalize(VSub(target, t.position))
        right_axis   == Normalize(Cross(world_up, look_dir))
        corrected_up == Cross(look_dir, right_axis)
    IN  [t EXCEPT !.rotation = from_rotation_axes(right_axis, corrected_up, look_dir)]

----------------------------------------------------------------------------
(* pac_render::Camera (camera.rs:9-130)                                    *)

DEFAULT_FOV == 785

DEFAULT_NEAR == 100

DEFAULT_FAR == 1000000

DEFAULT_ASPECT == 1778

Camera_new ==
    [transform    |-> IDENTITY,
     fov_y        |-> DEFAULT_FOV,
     near         |-> DEFAULT_NEAR,
     far          |-> DEFAULT_FAR,
     aspect_ratio |-> DEFAULT_ASPECT]

Camera_forward(c) == forward(c.transform)

Camera_right(c) == right(c.transform)

Camera_up(c) == up(c.transform)

Camera_look_at(c, target, world_up) ==
    [c EXCEPT !.transform = look_at(c.transform, target, world_up)]

\* Camera::with_fov
with_fov(c, fov_y) == [c EXCEPT !.fov_y = fov_y]

\* with_clipping_planes that puts the two planes in order before storing
with_clipping_planes_ordered(c, near, far) ==
    [c EXCEPT !.near = Min(near, far), !.far = Max(near, far)]

\* Camera::with_clipping_planes
with_clipping_planes(c, near, far) == [c EXCEPT !.near = near, !.far = far]

\* Camera::with_aspect_ratio
with_aspect_ratio(c, aspect_ratio) == [c EXCEPT !.aspect_ratio = aspect_ratio]

\* Camera::translate
Camera_translate(c, delta) == [c EXCEPT !.transform = translate(c.transform, delta)]

\* Camera::rotate
Camera_rotate(c, rotation) == [c EXCEPT !.transform = rotate_by(c.transform, rotation)]

----------------------------------------------------------------------------
(* Bounds and inputs of the model                                          *)

\* number of calls made on the object under test
MaxSteps == 3

\* a clamp that accepts inverted limits
ClampNeverPanics(min, max) == FALSE

\* f32::clamp panics when min > max
ClampPanics(min, max) == min > max

Call(op, a, b, c) == [op |-> op, a |-> a, b |-> b, c |-> c]

NoCall == Call("new", 0, 0, 0)

\* the most recent call
last == calls[Len(calls)]

----------------------------------------------------------------------------
(* pac_render::OrbitCamera (camera.rs:132-282)                             *)

DEFAULT_MIN_DISTANCE == 100

DEFAULT_MAX_DISTANCE == 1000000

DEFAULT_MIN_PITCH == -1480

DEFAULT_MAX_PITCH == 1480

DEFAULT_ROTATION_SENSITIVITY == 5

DEFAULT_ZOOM_SENSITIVITY == 100

\* OrbitCamera::update_position
update_position(self) ==
    LET cos_pitch == Cos(self.pitch)
        sin_pitch == Sin(self.pitch)
        cos_yaw   == Cos(self.yaw)
        sin_yaw   == Sin(self.yaw)
        offset    == <<Mul(Mul(self.distance, cos_pitch), sin_yaw),
                       Mul(self.distance, sin_pitch),
                       Mul(Mul(self.distance, cos_pitch), cos_yaw)>>
        moved     == [self.camera EXCEPT !.transform.position = VAdd(self.target, offset)]
    IN  [self EXCEPT !.camera = Camera_look_at(moved, self.target, Y)]

\* OrbitCamera::new
OrbitCamera_new ==
    update_position(
        [camera               |-> Camera_new,
         target               |-> ZERO,
         distance             |-> 10 * SCALE,
         min_distance         |-> DEFAULT_MIN_DISTANCE,
         max_distance         |-> DEFAULT_MAX_DISTANCE,
         yaw                  |-> 0,
         pitch                |-> 0,
         min_pitch            |-> DEFAULT_MIN_PITCH,
         max_pitch            |-> DEFAULT_MAX_PITCH,
         rotation_sensitivity |-> DEFAULT_ROTATION_SENSITIVITY,
         zoom_sensitivity     |-> DEFAULT_ZOOM_SENSITIVITY])

\* OrbitCamera::with_target
with_target(self, target) ==
    update_position([self EXCEPT !.target = target])

\* with_distance that stores the distance without clamping it
with_distance_unclamped(self, distance) ==
    update_position([self EXCEPT !.distance = distance])

\* OrbitCamera::with_distance (min_distance <= max_distance)
with_distance(self, distance) ==
    update_position(
        [self EXCEPT !.distance = Clamp(distance, self.min_distance, self.max_distance)])

\* OrbitCamera::with_distance_limits (min <= max)
with_distance_limits(self, min, max) ==
    update_position(
        [self EXCEPT !.min_distance = min,
                     !.max_distance = max,
                     !.distance = Clamp(self.distance, min, max)])

\* OrbitCamera::with_pitch_limits (min <= max)
with_pitch_limits(self, min, max) ==
    update_position(
        [self EXCEPT !.min_pitch = min,
                     !.max_pitch = max,
                     !.pitch = Clamp(self.pitch, min, max)])

\* rotate with the clamp of pitch left out
rotate_unclamped(self, delta_yaw, delta_pitch) ==
    update_position(
        [self EXCEPT !.yaw = self.yaw + Mul(delta_yaw, self.rotation_sensitivity),
                     !.pitch = self.pitch + Mul(delta_pitch, self.rotation_sensitivity)])

\* rotate that turns the camera in yaw and drops the pitch delta
rotate_yaw_only(self, delta_yaw, delta_pitch) ==
    update_position(
        [self EXCEPT !.yaw = self.yaw + Mul(delta_yaw, self.rotation_sensitivity),
                     !.pitch = Clamp(self.pitch, self.min_pitch, self.max_pitch)])

\* OrbitCamera::rotate (min_pitch <= max_pitch)
rotate(self, delta_yaw, delta_pitch) ==
    LET yaw   == self.yaw + Mul(delta_yaw, self.rotation_sensitivity)
        pitch == self.pitch + Mul(delta_pitch, self.rotation_sensitivity)
    IN  update_position(
            [self EXCEPT !.yaw = yaw,
                         !.pitch = Clamp(pitch, self.min_pitch, self.max_pitch)])

\* OrbitCamera::rotate_from_mouse
rotate_from_mouse(self, delta) == rotate(self, delta[1], -delta[2])

\* zoom with the clamp of distance left out
zoom_unclamped(self, delta) ==
    update_position(
        [self EXCEPT !.distance =
            Mul(self.distance, SCALE + Mul(delta, self.zoom_sensitivity))])

\* zoom that computes the factor and never stores the new distance
zoom_not_stored(self, delta) ==
    update_position(
        [self EXCEPT !.distance =
            Clamp(self.distance, self.min_distance, self.max_distance)])

\* OrbitCamera::zoom (min_distance <= max_distance)
zoom(self, delta) ==
    LET zoom_factor == SCALE + Mul(delta, self.zoom_sensitivity)
    IN  update_position(
            [self EXCEPT !.distance =
                Clamp(Mul(self.distance, zoom_factor), self.min_distance, self.max_distance)])

\* pan that moves the target and leaves the camera as it was
pan_stale(self, delta_right, delta_up) ==
    [self EXCEPT !.target =
        VAdd(self.target, VAdd(VScale(Camera_right(self.camera), delta_right),
                               VScale(Camera_up(self.camera), delta_up)))]

\* pan along the world axes X and Y instead of the camera's right and up
pan_world_axes(self, delta_right, delta_up) ==
    update_position(
        [self EXCEPT !.target =
            VAdd(self.target, VAdd(VScale(X, delta_right), VScale(Y, delta_up)))])

\* OrbitCamera::pan
pan(self, delta_right, delta_up) ==
    LET r         == Camera_right(self.camera)
        u         == Camera_up(self.camera)
        pan_delta == VAdd(VScale(r, delta_right), VScale(u, delta_up))
    IN  update_position([self EXCEPT !.target = VAdd(self.target, pan_delta)])

\* OrbitCamera::update
update(self) == update_position(self)

(* Arguments the calls are made with *)

OrbitTargets == {<<1000, 2000, 3000>>}

OrbitDistances == {50, 20000, 2000000}

OrbitDistanceLimits == {<<1000, 50000>>, <<30000, 50000>>, <<50000, 1000>>}

OrbitPitchLimits == {<<-1000, 1000>>, <<500, 1000>>, <<1000, -1000>>}

OrbitRotations == {<<1000, 500>>, <<314000, 100000>>, <<0, 400000>>, <<0, -400000>>}

OrbitMouseDeltas == {<<100000, 50000>>}

OrbitZooms == {1000, -5000, -10000, -20000, 10000}

OrbitPans == {<<1000, 0>>, <<0, 1000>>, <<-2000, 500>>}

(* One action per public method.  A clamp whose limits are inverted panics: *)
(* the call aborts and no camera is returned.                              *)

OrbitReady == ~panicked /\ steps < MaxSteps

OrbitCall(panics, result, op, a, b, c) ==
    /\ OrbitReady
    /\ IF panics
       THEN panicked' = TRUE /\ UNCHANGED orbit
       ELSE orbit' = result /\ UNCHANGED panicked
    /\ calls' = Append(calls, Call(op, a, b, c))
    /\ steps' = steps + 1
    /\ UNCHANGED <<fly, fixed, loop, transform, camera, input, input_map, fps_counter>>

Call_with_target ==
    \E t \in OrbitTargets :
        OrbitCall(FALSE, with_target(orbit, t), "with_target", t[1], t[2], t[3])

Call_with_distance ==
    \E d \in OrbitDistances :
        OrbitCall(ClampPanics(orbit.min_distance, orbit.max_distance),
                  with_distance(orbit, d), "with_distance", d, 0, 0)

Call_with_distance_limits ==
    \E l \in OrbitDistanceLimits :
        OrbitCall(ClampPanics(l[1], l[2]),
                  with_distance_limits(orbit, l[1], l[2]), "with_distance_limits", l[1], l[2], 0)

Call_with_pitch_limits ==
    \E l \in OrbitPitchLimits :
        OrbitCall(ClampPanics(l[1], l[2]),
                  with_pitch_limits(orbit, l[1], l[2]), "with_pitch_limits", l[1], l[2], 0)

Call_rotate ==
    \E r \in OrbitRotations :
        OrbitCall(ClampPanics(orbit.min_pitch, orbit.max_pitch),
                  rotate(orbit, r[1], r[2]), "rotate", r[1], r[2], 0)

Call_rotate_from_mouse ==
    \E d \in OrbitMouseDeltas :
        OrbitCall(ClampPanics(orbit.min_pitch, orbit.max_pitch),
                  rotate_from_mouse(orbit, d), "rotate_from_mouse", d[1], d[2], 0)

Call_zoom ==
    \E d \in OrbitZooms :
        OrbitCall(ClampPanics(orbit.min_distance, orbit.max_distance),
                  zoom(orbit, d), "zoom", d, 0, 0)

Call_pan ==
    \E d \in OrbitPans :
        OrbitCall(FALSE, pan(orbit, d[1], d[2]), "pan", d[1], d[2], 0)

Call_update ==
    OrbitCall(FALSE, update(orbit), "update", 0, 0, 0)

----------------------------------------------------------------------------
(* pac_render::FlyCamera (camera.rs:284-409)                               *)

DEFAULT_SPEED == 5000

DEFAULT_SENSITIVITY == 2

FlyCamera_DEFAULT_MIN_PITCH == -1550

FlyCamera_DEFAULT_MAX_PITCH == 1550

\* FlyCamera::new
FlyCamera_new ==
    [camera      |-> Camera_new,
     speed       |-> DEFAULT_SPEED,
     sensitivity |-> DEFAULT_SENSITIVITY,
     yaw         |-> 0,
     pitch       |-> 0,
     min_pitch   |-> FlyCamera_DEFAULT_MIN_PITCH,
     max_pitch   |-> FlyCamera_DEFAULT_MAX_PITCH]

\* FlyCamera::with_speed
with_speed(self, speed) == [self EXCEPT !.speed = speed]

\* FlyCamera::with_sensitivity
with_sensitivity(self, sensitivity) == [self EXCEPT !.sensitivity = sensitivity]

\* FlyCamera::with_pitch_limits
FlyCamera_with_pitch_limits(self, min, max) ==
    [self EXCEPT !.min_pitch = min, !.max_pitch = max]

\* update_rotation with the product taken in the other order
update_rotation_swapped(self) ==
    [self EXCEPT !.camera.transform.rotation =
        QMul(from_rotation_x(self.pitch), from_rotation_y(self.yaw))]

\* FlyCamera::update_rotation
update_rotation(self) ==
    LET yaw_rotation   == from_rotation_y(self.yaw)
        pitch_rotation == from_rotation_x(self.pitch)
    IN  [self EXCEPT !.camera.transform.rotation = QMul(yaw_rotation, pitch_rotation)]

\* the additions of rotate_from_mouse with the sign of delta.y not inverted
FlyCamera_add_mouse_uninverted(self, delta) ==
    [self EXCEPT !.yaw = self.yaw + Mul(delta[1], self.sensitivity),
                 !.pitch = self.pitch + Mul(delta[2], self.sensitivity)]

\* FlyCamera::rotate_from_mouse up to the clamp (camera.rs:347-348)
FlyCamera_add_mouse(self, delta) ==
    [self EXCEPT !.yaw = self.yaw + Mul(delta[1], self.sensitivity),
                 !.pitch = self.pitch + Mul(-delta[2], self.sensitivity)]

\* rotate_from_mouse with the clamp of pitch left out
FlyCamera_rotate_from_mouse_unclamped(self, delta) ==
    [self EXCEPT !.yaw = self.yaw + Mul(delta[1], self.sensitivity),
                 !.pitch = self.pitch + Mul(-delta[2], self.sensitivity),
                 !.camera.transform.rotation =
                     QMul(from_rotation_y(self.yaw + Mul(delta[1], self.sensitivity)),
                          from_rotation_x(self.pitch + Mul(-delta[2], self.sensitivity)))]

\* FlyCamera::rotate_from_mouse (min_pitch <= max_pitch)
FlyCamera_rotate_from_mouse(self, delta) ==
    LET added == FlyCamera_add_mouse(self, delta)
    IN  update_rotation(
            [added EXCEPT !.pitch = Clamp(added.pitch, self.min_pitch, self.max_pitch)])

\* move_forward that leaves the speed out of the step
move_forward_unscaled(self, amount) ==
    [self EXCEPT !.camera.transform.position =
        VAdd(self.camera.transform.position, VScale(Camera_forward(self.camera), amount))]

\* FlyCamera::move_forward
move_forward(self, amount) ==
    LET f == Camera_forward(self.camera)
    IN  [self EXCEPT !.camera.transform.position =
            VAdd(self.camera.transform.position, VScale(VScale(f, amount), self.speed))]

\* FlyCamera::move_backward
move_backward(self, amount) == move_forward(self, -amount)

\* FlyCamera::move_right
move_right(self, amount) ==
    LET r == Camera_right(self.camera)
    IN  [self EXCEPT !.camera.transform.position =
            VAdd(self.camera.transform.position, VScale(VScale(r, amount), self.speed))]

\* FlyCamera::move_left
move_left(self, amount) == move_right(self, -amount)

\* move_up along the camera's own up axis instead of world Y
move_up_local(self, amount) ==
    [self EXCEPT !.camera.transform.position =
        VAdd(self.camera.transform.position,
             VScale(VScale(Camera_up(self.camera), amount), self.speed))]

\* FlyCamera::move_up
move_up(self, amount) ==
    [self EXCEPT !.camera.transform.position =
        VAdd(self.camera.transform.position, VScale(VScale(Y, amount), self.speed))]

\* FlyCamera::move_down
move_down(self, amount) == move_up(self, -amount)

\* move_wasd that normalizes the input vector with normalize, which gives
\* NaN for the zero vector
move_wasd_normalize(self, forward_back, right_left, delta_time) ==
    [self EXCEPT !.camera.transform.position =
        VAdd(self.camera.transform.position,
             VScale(VScale(Normalize(VAdd(VScale(Camera_forward(self.camera), forward_back),
                                          VScale(Camera_right(self.camera), right_left))),
                           self.speed),
                    delta_time))]

\* FlyCamera::move_wasd
move_wasd(self, forward_back, right_left, delta_time) ==
    LET f        == Camera_forward(self.camera)
        r        == Camera_right(self.camera)
        movement == NormalizeOrZero(VAdd(VScale(f, forward_back), VScale(r, right_left)))
    IN  [self EXCEPT !.camera.transform.position =
            VAdd(self.camera.transform.position,
                 VScale(VScale(movement, self.speed), delta_time))]

(* Arguments the calls are made with *)

FlySpeeds == {0, 10000}

FlySensitivities == {10}

FlyPitchLimits == {<<-1200, 1200>>, <<500, 1000>>, <<1000, -1000>>}

FlyMouseDeltas == {<<100000, 50000>>, <<0, -1000000>>, <<0, 1000000>>, <<-785000, 0>>}

FlyAmounts == {1000, 250}

FlyWasd == {<<0, 0, 16>>, <<1000, 1000, 16>>, <<-1000, 0, 500>>}

FlyReady == ~panicked /\ steps < MaxSteps

FlyCall(result, op, a, b, c) ==
    /\ FlyReady
    /\ fly' = result
    /\ calls' = Append(calls, Call(op, a, b, c))
    /\ steps' = steps + 1
    /\ UNCHANGED <<orbit, fixed, loop, panicked, transform, camera, input, input_map, fps_counter>>

Call_with_speed ==
    \E v \in FlySpeeds : FlyCall(with_speed(fly, v), "with_speed", v, 0, 0)

Call_with_sensitivity ==
    \E v \in FlySensitivities : FlyCall(with_sensitivity(fly, v), "with_sensitivity", v, 0, 0)

Call_FlyCamera_with_pitch_limits ==
    \E l \in FlyPitchLimits :
        FlyCall(FlyCamera_with_pitch_limits(fly, l[1], l[2]), "with_pitch_limits", l[1], l[2], 0)

\* with inverted limits the clamp panics after yaw and pitch were written
Call_FlyCamera_rotate_from_mouse ==
    \E d \in FlyMouseDeltas :
        /\ FlyReady
        /\ IF ClampPanics(fly.min_pitch, fly.max_pitch)
           THEN fly' = FlyCamera_add_mouse(fly, d) /\ panicked' = TRUE
           ELSE fly' = FlyCamera_rotate_from_mouse(fly, d) /\ UNCHANGED panicked
        /\ calls' = Append(calls, Call("rotate_from_mouse", d[1], d[2], 0))
        /\ steps' = steps + 1
        /\ UNCHANGED <<orbit, fixed, loop, transform, camera, input, input_map, fps_counter>>

Call_move_forward ==
    \E a \in FlyAmounts : FlyCall(move_forward(fly, a), "move_forward", a, 0, 0)

Call_move_backward ==
    \E a \in FlyAmounts : FlyCall(move_backward(fly, a), "move_backward", a, 0, 0)

Call_move_right ==
    \E a \in FlyAmounts : FlyCall(move_right(fly, a), "move_right", a, 0, 0)

Call_move_left ==
    \E a \in FlyAmounts : FlyCall(move_left(fly, a), "move_left", a, 0, 0)

Call_move_up ==
    \E a \in FlyAmounts : FlyCall(move_up(fly, a), "move_up", a, 0, 0)

Call_move_down ==
    \E a \in FlyAmounts : FlyCall(move_down(fly, a), "move_down", a, 0, 0)

Call_move_wasd ==
    \E w \in FlyWasd : FlyCall(move_wasd(fly, w[1], w[2], w[3]), "move_wasd", w[1], w[2], w[3])

----------------------------------------------------------------------------
(* pac_window::FixedTimestep (time.rs:42-83).  Times are in milliseconds.  *)

\* FixedTimestep::new
FixedTimestep_new(fixed_delta_time) ==
    [accumulator |-> 0, timestep |-> fixed_delta_time, interpolation |-> 0]

\* FixedTimestep::update
FixedTimestep_update(self, delta_time) ==
    LET accumulator == self.accumulator + delta_time
    IN  [self EXCEPT !.accumulator = accumulator,
                     !.interpolation = Div(accumulator, self.timestep)]

\* should_update with a strict comparison
should_update_strict(self) == self.accumulator > self.timestep

\* FixedTimestep::should_update
should_update(self) == self.accumulator >= self.timestep

\* consume_tick that empties the accumulator instead of taking one tick
consume_tick_reset(self) ==
    IF self.accumulator >= self.timestep
    THEN [self EXCEPT !.accumulator = 0]
    ELSE self

\* consume_tick that takes a tick whether or not one is pending
consume_tick_unguarded(self) ==
    [self EXCEPT !.accumulator = self.accumulator - self.timestep]

\* FixedTimestep::consume_tick
consume_tick(self) ==
    IF self.accumulator >= self.timestep
    THEN [self EXCEPT !.accumulator = self.accumulator - self.timestep]
    ELSE self

\* FixedTimestep::interpolation
interpolation(self) == Min(self.interpolation, SCALE)

(* Arguments: the timestep the object is built with and the frame times   *)
(* fed to it; 9 * t + 4 is a stall of several ticks.                       *)

Timesteps == {17, 50}

FrameTimes(t) == {0, 7, t, 2 * t, 9 * t + 4}

Idle == [pc |-> "idle", start |-> 0, iterations |-> 0]

FixedReady == loop.pc = "idle" /\ steps < MaxSteps

Call_FixedTimestep_update ==
    \E d \in FrameTimes(fixed.timestep) :
        /\ FixedReady
        /\ fixed' = FixedTimestep_update(fixed, d)
        /\ calls' = Append(calls, Call("update", d, 0, 0))
        /\ steps' = steps + 1
        /\ UNCHANGED <<orbit, fly, loop, panicked, transform, camera, input, input_map, fps_counter>>

Call_consume_tick ==
    /\ FixedReady
    /\ fixed' = consume_tick(fixed)
    /\ calls' = Append(calls, Call("consume_tick", 0, 0, 0))
    /\ steps' = steps + 1
    /\ UNCHANGED <<orbit, fly, loop, panicked, transform, camera, input, input_map, fps_counter>>

(* The caller's loop: while should_update() { consume_tick() }             *)

LoopEnter ==
    /\ FixedReady
    /\ loop' = [pc |-> "while", start |-> fixed.accumulator, iterations |-> 0]
    /\ calls' = Append(calls, Call("loop_enter", 0, 0, 0))
    /\ steps' = steps + 1
    /\ UNCHANGED <<orbit, fly, fixed, panicked, transform, camera, input, input_map, fps_counter>>

LoopBody ==
    /\ loop.pc = "while"
    /\ should_update(fixed)
    /\ fixed' = consume_tick(fixed)
    /\ loop' = [loop EXCEPT !.iterations = loop.iterations + 1]
    /\ calls' = Append(calls, Call("consume_tick", 0, 0, 0))
    /\ UNCHANGED <<orbit, fly, steps, panicked, transform, camera, input, input_map, fps_counter>>

LoopExit ==
    /\ loop.pc = "while"
    /\ ~should_update(fixed)
    /\ loop' = [loop EXCEPT !.pc = "idle"]
    /\ calls' = Append(calls, Call("loop_exit", 0, 0, 0))
    /\ UNCHANGED <<orbit, fly, fixed, steps, panicked, transform, camera, input, input_map, fps_counter>>

----------------------------------------------------------------------------
(* Calls on a Transform (transform.rs:10-117)                              *)

TransformVectors == {<<1000, 2000, 3000>>}

TransformScales == {<<2000, 3000, 4000>>}

\* rotations as <<axis, angle>>: axis 1 is X, axis 2 is Y
TransformRotations == {<<2, HALF_PI>>, <<1, 700>>, <<1, -700>>, <<2, -2500>>}

TransformTargets == {<<0, 0, -5000>>}

\* Quat::from_rotation_x or Quat::from_rotation_y of the angle
AxisRotation(r) == IF r[1] = 1 THEN from_rotation_x(r[2]) ELSE from_rotation_y(r[2])

TransformCall(result, op, a, b, c) ==
    /\ steps < MaxSteps
    /\ transform' = result
    /\ calls' = Append(calls, Call(op, a, b, c))
    /\ steps' = steps + 1
    /\ UNCHANGED <<orbit, fly, fixed, loop, panicked, camera, input, input_map, fps_counter>>

Call_with_position ==
    \E p \in TransformVectors :
        TransformCall(with_position(transform, p), "with_position", p[1], p[2], p[3])

Call_with_rotation ==
    \E r \in TransformRotations :
        TransformCall(with_rotation(transform, AxisRotation(r)), "with_rotation", r[1], r[2], 0)

Call_with_scale ==
    \E k \in TransformScales :
        TransformCall(with_scale(transform, k), "with_scale", k[1], k[2], k[3])

Call_translate ==
    \E v \in TransformVectors :
        TransformCall(translate(transform, v), "translate", v[1], v[2], v[3])

Call_rotate_by ==
    \E r \in TransformRotations :
        TransformCall(rotate_by(transform, AxisRotation(r)), "rotate_by", r[1], r[2], 0)

Call_scale_by ==
    \E k \in TransformScales :
        TransformCall(scale_by(transform, k), "scale_by", k[1], k[2], k[3])

Call_look_at ==
    \E t \in TransformTargets :
        TransformCall(look_at(transform, t, Y), "look_at", t[1], t[2], t[3])

----------------------------------------------------------------------------
(* Calls on a Camera (camera.rs:24-123)                                    *)

\* pi/3 as in the repository's test, zero and a negative angle
CameraFovs == {1047, 0, -500}

\* <<near, far>>: in order, inverted and equal
CameraClippingPlanes == {<<10, 100000>>, <<100000, 10>>, <<500, 500>>}

CameraAspectRatios == {1333, 0}

CameraDeltas == {<<1000, 2000, 3000>>}

CameraRotations == {<<2, HALF_PI>>}

CameraTargets == {<<0, 0, -5000>>}

CameraCall(result, op, a, b, c) ==
    /\ steps < MaxSteps
    /\ camera' = result
    /\ calls' = Append(calls, Call(op, a, b, c))
    /\ steps' = steps + 1
    /\ UNCHANGED <<orbit, fly, fixed, loop, panicked, transform, input, input_map, fps_counter>>

Call_with_fov ==
    \E f \in CameraFovs : CameraCall(with_fov(camera, f), "with_fov", f, 0, 0)

Call_with_clipping_planes ==
    \E p \in CameraClippingPlanes :
        CameraCall(with_clipping_planes(camera, p[1], p[2]),
                   "with_clipping_planes", p[1], p[2], 0)

Call_with_aspect_ratio ==
    \E r \in CameraAspectRatios :
        CameraCall(with_aspect_ratio(camera, r), "with_aspect_ratio", r, 0, 0)

Call_Camera_translate ==
    \E d \in CameraDeltas :
        CameraCall(Camera_translate(camera, d), "translate", d[1], d[2], d[3])

Call_Camera_rotate ==
    \E r \in CameraRotations :
        CameraCall(Camera_rotate(camera, AxisRotation(r)), "rotate", r[1], r[2], 0)

Call_Camera_look_at ==
    \E t \in CameraTargets :
        CameraCall(Camera_look_at(camera, t, Y), "look_at", t[1], t[2], t[3])

----------------------------------------------------------------------------
(* pac_window::InputState (input.rs:11-197).  Key codes, buttons and       *)
(* element states are their names; Option::None is the empty tuple.        *)

None == <<>>

\* InputState::new (Default: empty sets, no positions, wheel (0, 0))
InputState_new ==
    [keys_pressed                |-> {},
     keys_just_pressed           |-> {},
     keys_just_released          |-> {},
     mouse_position              |-> None,
     previous_mouse_position     |-> None,
     mouse_buttons_pressed       |-> {},
     mouse_buttons_just_pressed  |-> {},
     mouse_buttons_just_released |-> {},
     mouse_wheel_delta           |-> <<0, 0>>,
     cursor_in_window            |-> FALSE]

\* update that clears the just-sets of the keys and forgets the buttons'
InputState_update_keys_only(self) ==
    [self EXCEPT !.keys_just_pressed = {},
                 !.keys_just_released = {},
                 !.mouse_wheel_delta = <<0, 0>>,
                 !.previous_mouse_position = self.mouse_position]

\* InputState::update
InputState_update(self) ==
    [self EXCEPT !.keys_just_pressed = {},
                 !.keys_just_released = {},
                 !.mouse_buttons_just_pressed = {},
                 !.mouse_buttons_just_released = {},
                 !.mouse_wheel_delta = <<0, 0>>,
                 !.previous_mouse_position = self.mouse_position]

\* handle_key that marks every Pressed event just-pressed, repeats included
handle_key_repeat_triggers(self, key_code, state) ==
    IF state = "Pressed"
    THEN [self EXCEPT !.keys_just_pressed = @ \cup {key_code},
                      !.keys_pressed = @ \cup {key_code}]
    ELSE [self EXCEPT !.keys_pressed = @ \ {key_code},
                      !.keys_just_released = @ \cup {key_code}]

\* InputState::handle_key
handle_key(self, key_code, state) ==
    IF state = "Pressed"
    THEN [self EXCEPT !.keys_just_pressed =
                          IF key_code \notin self.keys_pressed
                          THEN @ \cup {key_code} ELSE @,
                      !.keys_pressed = @ \cup {key_code}]
    ELSE [self EXCEPT !.keys_pressed = @ \ {key_code},
                      !.keys_just_released = @ \cup {key_code}]

\* handle_mouse_button whose Released leaves the button in the held set
handle_mouse_button_sticky(self, button, state) ==
    IF state = "Pressed"
    THEN [self EXCEPT !.mouse_buttons_just_pressed =
                          IF button \notin self.mouse_buttons_pressed
                          THEN @ \cup {button} ELSE @,
                      !.mouse_buttons_pressed = @ \cup {button}]
    ELSE [self EXCEPT !.mouse_buttons_just_released = @ \cup {button}]

\* InputState::handle_mouse_button
handle_mouse_button(self, button, state) ==
    IF state = "Pressed"
    THEN [self EXCEPT !.mouse_buttons_just_pressed =
                          IF button \notin self.mouse_buttons_pressed
                          THEN @ \cup {button} ELSE @,
                      !.mouse_buttons_pressed = @ \cup {button}]
    ELSE [self EXCEPT !.mouse_buttons_pressed = @ \ {button},
                      !.mouse_buttons_just_released = @ \cup {button}]

\* const PIXELS_PER_LINE: f64 = 50.0
PIXELS_PER_LINE == 50 * SCALE

\* handle_mouse_wheel that adds pixel deltas without converting them
handle_mouse_wheel_raw_pixels(self, delta) ==
    [self EXCEPT !.mouse_wheel_delta = <<@[1] + delta.x, @[2] + delta.y>>]

\* InputState::handle_mouse_wheel; delta is [kind, x, y]
handle_mouse_wheel(self, delta) ==
    IF delta.kind = "LineDelta"
    THEN [self EXCEPT !.mouse_wheel_delta = <<@[1] + delta.x, @[2] + delta.y>>]
    ELSE [self EXCEPT !.mouse_wheel_delta =
             <<@[1] + Div(delta.x, PIXELS_PER_LINE), @[2] + Div(delta.y, PIXELS_PER_LINE)>>]

\* InputState::handle_event; event is a record with the event's kind and
\* the fields that kind carries
handle_event(self, event) ==
    CASE event.kind = "KeyboardInput" -> handle_key(self, event.key_code, event.state)
      [] event.kind = "CursorMoved"   -> [self EXCEPT !.mouse_position = event.position]
      [] event.kind = "CursorEntered" -> [self EXCEPT !.cursor_in_window = TRUE]
      [] event.kind = "CursorLeft"    -> [self EXCEPT !.cursor_in_window = FALSE,
                                                      !.mouse_position = None]
      [] event.kind = "MouseInput"    -> handle_mouse_button(self, event.button, event.state)
      [] event.kind = "MouseWheel"    -> handle_mouse_wheel(self, event.delta)
      [] OTHER                        -> self

\* InputState::is_key_pressed
is_key_pressed(self, key_code) == key_code \in self.keys_pressed

\* InputState::is_key_just_pressed
is_key_just_pressed(self, key_code) == key_code \in self.keys_just_pressed

\* InputState::is_key_just_released
is_key_just_released(self, key_code) == key_code \in self.keys_just_released

\* InputState::is_mouse_button_pressed
is_mouse_button_pressed(self, button) == button \in self.mouse_buttons_pressed

\* InputState::is_mouse_button_just_pressed
is_mouse_button_just_pressed(self, button) == button \in self.mouse_buttons_just_pressed

\* InputState::is_mouse_button_just_released
is_mouse_button_just_released(self, button) == button \in self.mouse_buttons_just_released

\* InputState::mouse_position
mouse_position(self) == self.mouse_position

\* InputState::mouse_delta
mouse_delta(self) ==
    IF self.previous_mouse_position # None /\ self.mouse_position # None
    THEN <<self.mouse_position[1] - self.previous_mouse_position[1],
           self.mouse_position[2] - self.previous_mouse_position[2]>>
    ELSE None

\* InputState::mouse_wheel_delta
mouse_wheel_delta(self) == self.mouse_wheel_delta

\* InputState::is_cursor_in_window
is_cursor_in_window(self) == self.cursor_in_window

----------------------------------------------------------------------------
(* pac_window::InputMap (input.rs:199-285).  A HashMap is a function on    *)
(* the set of its keys, a Vec a sequence.                                  *)

EmptyMap == [a \in {} |-> <<>>]

\* HashMap::entry(k).or_default().push(v)
MapPush(m, k, v) ==
    [a \in DOMAIN m \cup {k} |->
        IF a = k THEN Append(IF k \in DOMAIN m THEN m[k] ELSE <<>>, v) ELSE m[a]]

\* HashMap::remove(k)
MapRemove(m, k) == [a \in DOMAIN m \ {k} |-> m[a]]

\* InputMap::new
InputMap_new == [keyboard_bindings |-> EmptyMap, mouse_bindings |-> EmptyMap]

\* InputMap::bind_key
bind_key(self, action, key) ==
    [self EXCEPT !.keyboard_bindings = MapPush(@, action, key)]

\* InputMap::bind_mouse_button
bind_mouse_button(self, action, button) ==
    [self EXCEPT !.mouse_bindings = MapPush(@, action, button)]

\* is_action_active that looks at the keyboard bindings only
is_action_active_keys_only(self, action, input_state) ==
    /\ action \in DOMAIN self.keyboard_bindings
    /\ \E i \in 1..Len(self.keyboard_bindings[action]) :
           is_key_pressed(input_state, self.keyboard_bindings[action][i])

\* InputMap::is_action_active
is_action_active(self, action, input_state) ==
    \/ /\ action \in DOMAIN self.keyboard_bindings
       /\ \E i \in 1..Len(self.keyboard_bindings[action]) :
              is_key_pressed(input_state, self.keyboard_bindings[action][i])
    \/ /\ action \in DOMAIN self.mouse_bindings
       /\ \E i \in 1..Len(self.mouse_bindings[action]) :
              is_mouse_button_pressed(input_state, self.mouse_bindings[action][i])

\* InputMap::is_action_just_pressed
is_action_just_pressed(self, action, input_state) ==
    \/ /\ action \in DOMAIN self.keyboard_bindings
       /\ \E i \in 1..Len(self.keyboard_bindings[action]) :
              is_key_just_pressed(input_state, self.keyboard_bindings[action][i])
    \/ /\ action \in DOMAIN self.mouse_bindings
       /\ \E i \in 1..Len(self.mouse_bindings[action]) :
              is_mouse_button_just_pressed(input_state, self.mouse_bindings[action][i])

\* InputMap::unbind_action
unbind_action(self, action) ==
    [self EXCEPT !.keyboard_bindings = MapRemove(@, action),
                 !.mouse_bindings = MapRemove(@, action)]

\* InputMap::clear_bindings
clear_bindings(self) ==
    [self EXCEPT !.keyboard_bindings = EmptyMap, !.mouse_bindings = EmptyMap]

----------------------------------------------------------------------------
(* Events and calls on an InputState and an InputMap                       *)

\* number of events and calls in a run of the input objects
MaxEvents == 4

KeyCodes == {"KeyW", "ArrowUp"}

MouseButtons == {"Left"}

ElementStates == {"Pressed", "Released"}

\* cursor positions in pixels
CursorPositions == {<<100000, 200000>>, <<150000, 180000>>}

\* MouseScrollDelta::LineDelta(x, y)
LineDeltas == {<<0, 1000>>}

\* MouseScrollDelta::PixelDelta(pos)
PixelDeltas == {<<100000, -25000>>}

ActionNames == {"move_forward", "fire"}

\* <<action, key>> given to bind_key
KeyBindings == {<<"move_forward", "KeyW">>, <<"move_forward", "ArrowUp">>}

\* <<action, button>> given to bind_mouse_button
MouseBindings == {<<"fire", "Left">>}

\* one event handed to handle_event, or one update()
InputCall(result, op, a, b, c) ==
    /\ steps < MaxEvents
    /\ input' = result
    /\ calls' = Append(calls, Call(op, a, b, c))
    /\ steps' = steps + 1
    /\ UNCHANGED <<orbit, fly, fixed, loop, panicked, transform, camera, input_map, fps_counter>>

Call_InputState_update ==
    InputCall(InputState_update(input), "update", 0, 0, 0)

Event_KeyboardInput ==
    \E k \in KeyCodes, st \in ElementStates :
        InputCall(handle_event(input, [kind |-> "KeyboardInput", key_code |-> k, state |-> st]),
                  "KeyboardInput", k, st, 0)

Event_MouseInput ==
    \E b \in MouseButtons, st \in ElementStates :
        InputCall(handle_event(input, [kind |-> "MouseInput", button |-> b, state |-> st]),
                  "MouseInput", b, st, 0)

Event_CursorMoved ==
    \E p \in CursorPositions :
        InputCall(handle_event(input, [kind |-> "CursorMoved", position |-> p]),
                  "CursorMoved", p[1], p[2], 0)

Event_CursorEntered ==
    InputCall(handle_event(input, [kind |-> "CursorEntered"]), "CursorEntered", 0, 0, 0)

Event_CursorLeft ==
    InputCall(handle_event(input, [kind |-> "CursorLeft"]), "CursorLeft", 0, 0, 0)

Event_MouseWheel ==
    \/ \E d \in LineDeltas :
          InputCall(handle_event(input, [kind |-> "MouseWheel",
                        delta |-> [kind |-> "LineDelta", x |-> d[1], y |-> d[2]]]),
                    "MouseWheel", d[1], d[2], "LineDelta")
    \/ \E d \in PixelDeltas :
          InputCall(handle_event(input, [kind |-> "MouseWheel",
                        delta |-> [kind |-> "PixelDelta", x |-> d[1], y |-> d[2]]]),
                    "MouseWheel", d[1], d[2], "PixelDelta")

\* an event InputState does not look at (the `_ => {}` arm)
Event_Focused ==
    InputCall(handle_event(input, [kind |-> "Focused"]), "Focused", 0, 0, 0)

\* one call of an InputMap method
InputMapCall(result, op, a, b, c) ==
    /\ steps < MaxEvents
    /\ input_map' = result
    /\ calls' = Append(calls, Call(op, a, b, c))
    /\ steps' = steps + 1
    /\ UNCHANGED <<orbit, fly, fixed, loop, panicked, transform, camera, input, fps_counter>>

Call_bind_key ==
    \E kb \in KeyBindings :
        InputMapCall(bind_key(input_map, kb[1], kb[2]), "bind_key", kb[1], kb[2], 0)

Call_bind_mouse_button ==
    \E mb \in MouseBindings :
        InputMapCall(bind_mouse_button(input_map, mb[1], mb[2]),
                     "bind_mouse_button", mb[1], mb[2], 0)

Call_unbind_action ==
    \E action \in ActionNames :
        InputMapCall(unbind_action(input_map, action), "unbind_action", action, 0, 0)

Call_clear_bindings ==
    InputMapCall(clear_bindings(input_map), "clear_bindings", 0, 0, 0)

----------------------------------------------------------------------------
(* pac_window::FpsCounter (time.rs:85-157).  Frame times are in            *)
(* milliseconds (SCALE to the second).  Instant::now() is the clock of the *)
(* environment: the elapsed time that update reads is an argument of the   *)
(* call, and last_update, which only serves to compute it, is not stored.  *)

\* FpsCounter::new
FpsCounter_new(max_samples, update_interval) ==
    [frame_times     |-> <<>>,
     max_samples     |-> max_samples,
     current_fps     |-> 0,
     frame_count     |-> 0,
     update_interval |-> update_interval]

\* Default for FpsCounter: new(60, 0.5)
FpsCounter_default == FpsCounter_new(60, 500)

\* Vec::remove(0)
RemoveFirst(v) == SubSeq(v, 2, Len(v))

\* iter().sum::<f32>()
RECURSIVE SumSeq(_)
SumSeq(v) == IF v = <<>> THEN 0 ELSE v[1] + SumSeq(RemoveFirst(v))

\* update that evicts the newest sample when the window is full
FpsCounter_update_evict_newest(self, delta_time, elapsed) ==
    LET pushed      == Append(self.frame_times, delta_time)
        frame_times == IF Len(pushed) > self.max_samples
                       THEN SubSeq(pushed, 1, Len(pushed) - 1) ELSE pushed
        avg_frame_time == IF frame_times # <<>>
                          THEN RDiv(SumSeq(frame_times), Len(frame_times))
                          ELSE delta_time
    IN  [self EXCEPT !.frame_times = frame_times,
                     !.frame_count = self.frame_count + 1,
                     !.current_fps =
                         IF elapsed >= self.update_interval
                         THEN (IF avg_frame_time > 0 THEN Div(SCALE, avg_frame_time) ELSE 0)
                         ELSE @]

\* FpsCounter::update; elapsed is self.last_update.elapsed()
FpsCounter_update(self, delta_time, elapsed) ==
    LET pushed      == Append(self.frame_times, delta_time)
        frame_times == IF Len(pushed) > self.max_samples
                       THEN RemoveFirst(pushed) ELSE pushed
        avg_frame_time == IF frame_times # <<>>
                          THEN RDiv(SumSeq(frame_times), Len(frame_times))
                          ELSE delta_time
    IN  [self EXCEPT !.frame_times = frame_times,
                     !.frame_count = self.frame_count + 1,
                     !.current_fps =
                         IF elapsed >= self.update_interval
                         THEN (IF avg_frame_time > 0 THEN Div(SCALE, avg_frame_time) ELSE 0)
                         ELSE @]

\* FpsCounter::fps
FpsCounter_fps(self) == self.current_fps

\* FpsCounter::frame_count
frame_count(self) == self.frame_count

\* FpsCounter::reset
FpsCounter_reset(self) ==
    [self EXCEPT !.frame_times = <<>>, !.current_fps = 0, !.frame_count = 0]

(* Arguments: window sizes, frame times of 16 and 33 ms and a frame without *)
(* time, and clock readings before and after the update interval           *)

FpsMaxSamples == {0, 1, 2}

FpsDeltas == {16, 33, 0}

FpsElapsed == {0, 500}

FpsCall(result, op, a, b, c) ==
    /\ steps < MaxSteps
    /\ fps_counter' = result
    /\ calls' = Append(calls, Call(op, a, b, c))
    /\ steps' = steps + 1
    /\ UNCHANGED <<orbit, fly, fixed, loop, panicked, transform, camera, input, input_map>>

Call_FpsCounter_update ==
    \E d \in FpsDeltas, e \in FpsElapsed :
        FpsCall(FpsCounter_update(fps_counter, d, e), "update", d, e, 0)

Call_FpsCounter_reset ==
    FpsCall(FpsCounter_reset(fps_counter), "reset", 0, 0, 0)

----------------------------------------------------------------------------
(* Builder chains on OrbitCamera::new() and FlyCamera::new().  The calls   *)
(* on the FlyCamera are logged under their qualified names, which tells    *)
(* them from the OrbitCamera methods of the same name.                     *)

\* distance limits of the chains: those of the OrbitCamera calls and a pair
\* wider than the default limits (0.1, 1000)
BuilderDistanceLimits == OrbitDistanceLimits \cup {<<10, 2000000>>}

Build_with_distance_limits ==
    \E l \in BuilderDistanceLimits :
        OrbitCall(ClampPanics(l[1], l[2]),
                  with_distance_limits(orbit, l[1], l[2]), "with_distance_limits", l[1], l[2], 0)

Build_FlyCamera_with_pitch_limits ==
    \E l \in FlyPitchLimits :
        FlyCall(FlyCamera_with_pitch_limits(fly, l[1], l[2]),
                "FlyCamera::with_pitch_limits", l[1], l[2], 0)

\* with inverted limits the clamp panics after yaw and pitch were written
Build_FlyCamera_rotate_from_mouse ==
    \E d \in FlyMouseDeltas :
        /\ FlyReady
        /\ IF ClampPanics(fly.min_pitch, fly.max_pitch)
           THEN fly' = FlyCamera_add_mouse(fly, d) /\ panicked' = TRUE
           ELSE fly' = FlyCamera_rotate_from_mouse(fly, d) /\ UNCHANGED panicked
        /\ calls' = Append(calls, Call("FlyCamera::rotate_from_mouse", d[1], d[2], 0))
        /\ steps' = steps + 1
        /\ UNCHANGED <<orbit, fixed, loop, transform, camera, input, input_map, fps_counter>>

----------------------------------------------------------------------------
(* Specifications: one per object under test                               *)

InitOrbit ==
    /\ orbit = OrbitCamera_new
    /\ fly = FlyCamera_new
    /\ fixed = FixedTimestep_new(17)
    /\ loop = Idle
    /\ calls = <<NoCall>>
    /\ steps = 0
    /\ panicked = FALSE
    /\ camera = Camera_new
    /\ input = InputState_new
    /\ input_map = InputMap_new
    /\ fps_counter = FpsCounter_default
    /\ transform = IDENTITY

NextOrbit ==
    \/ Call_with_target
    \/ Call_with_distance
    \/ Call_with_distance_limits
    \/ Call_with_pitch_limits
    \/ Call_rotate
    \/ Call_rotate_from_mouse
    \/ Call_zoom
    \/ Call_pan
    \/ Call_update

SpecOrbit == InitOrbit /\ [][NextOrbit]_vars

InitFly == InitOrbit

NextFly ==
    \/ Call_with_speed
    \/ Call_with_sensitivity
    \/ Call_FlyCamera_with_pitch_limits
    \/ Call_FlyCamera_rotate_from_mouse
    \/ Call_move_forward
    \/ Call_move_backward
    \/ Call_move_right
    \/ Call_move_left
    \/ Call_move_up
    \/ Call_move_down
    \/ Call_move_wasd

SpecFly == InitFly /\ [][NextFly]_vars

InitFixed ==
    /\ orbit = OrbitCamera_new
    /\ fly = FlyCamera_new
    /\ \E t \in Timesteps : fixed = FixedTimestep_new(t)
    /\ loop = Idle
    /\ calls = <<NoCall>>
    /\ steps = 0
    /\ panicked = FALSE
    /\ camera = Camera_new
    /\ input = InputState_new
    /\ input_map = InputMap_new
    /\ fps_counter = FpsCounter_default
    /\ transform = IDENTITY

NextFixed ==
    \/ Call_FixedTimestep_update
    \/ Call_consume_tick
    \/ LoopEnter
    \/ LoopBody
    \/ LoopExit

\* the caller's loop is sequential code: once entered it keeps running
SpecFixed == InitFixed /\ [][NextFixed]_vars /\ WF_vars(LoopBody) /\ WF_vars(LoopExit)

\* a Transform is made by IDENTITY or by one of the from_ constructors
InitTransform ==
    /\ orbit = OrbitCamera_new
    /\ fly = FlyCamera_new
    /\ fixed = FixedTimestep_new(17)
    /\ loop = Idle
    /\ steps = 0
    /\ panicked = FALSE
    /\ camera = Camera_new
    /\ input = InputState_new
    /\ input_map = InputMap_new
    /\ fps_counter = FpsCounter_default
    /\ \/ transform = IDENTITY /\ calls = <<Call("IDENTITY", 0, 0, 0)>>
       \/ \E p \in TransformVectors :
             /\ transform = from_position(p)
             /\ calls = <<Call("from_position", p[1], p[2], p[3])>>
       \/ \E r \in TransformRotations :
             /\ transform = from_rotation(AxisRotation(r))
             /\ calls = <<Call("from_rotation", r[1], r[2], 0)>>
       \/ \E k \in TransformScales :
             /\ transform = from_scale(k)
             /\ calls = <<Call("from_scale", k[1], k[2], k[3])>>

NextTransform ==
    \/ Call_with_position
    \/ Call_with_rotation
    \/ Call_with_scale
    \/ Call_translate
    \/ Call_rotate_by
    \/ Call_scale_by
    \/ Call_look_at

SpecTransform == InitTransform /\ [][NextTransform]_vars

InitCamera == InitOrbit

NextCamera ==
    \/ Call_with_fov
    \/ Call_with_clipping_planes
    \/ Call_with_aspect_ratio
    \/ Call_Camera_translate
    \/ Call_Camera_rotate
    \/ Call_Camera_look_at

SpecCamera == InitCamera /\ [][NextCamera]_vars

InitInput == InitOrbit

NextInput ==
    \/ Call_InputState_update
    \/ Event_KeyboardInput
    \/ Event_MouseInput
    \/ Event_CursorMoved
    \/ Event_CursorEntered
    \/ Event_CursorLeft
    \/ Event_MouseWheel
    \/ Event_Focused

SpecInput == InitInput /\ [][NextInput]_vars

InitInputMap == InitOrbit

\* the bindings change between the key and button events of a run
NextInputMap ==
    \/ Call_bind_key
    \/ Call_bind_mouse_button
    \/ Call_unbind_action
    \/ Call_clear_bindings
    \/ Call_InputState_update
    \/ Event_KeyboardInput
    \/ Event_MouseInput

SpecInputMap == InitInputMap /\ [][NextInputMap]_vars

\* an FpsCounter is made by new(max_samples, update_interval)
InitFps ==
    /\ orbit = OrbitCamera_new
    /\ fly = FlyCamera_new
    /\ fixed = FixedTimestep_new(17)
    /\ loop = Idle
    /\ steps = 0
    /\ panicked = FALSE
    /\ transform = IDENTITY
    /\ camera = Camera_new
    /\ input = InputState_new
    /\ input_map = InputMap_new
    /\ \E m \in FpsMaxSamples :
          /\ fps_counter = FpsCounter_new(m, 500)
          /\ calls = <<Call("new", m, 500, 0)>>

NextFps ==
    \/ Call_FpsCounter_update
    \/ Call_FpsCounter_reset

SpecFps == InitFps /\ [][NextFps]_vars

InitBuilders == InitOrbit

NextBuilders ==
    \/ Call_with_distance
    \/ Build_with_distance_limits
    \/ Call_with_pitch_limits
    \/ Build_FlyCamera_with_pitch_limits
    \/ Build_FlyCamera_rotate_from_mouse

SpecBuilders == InitBuilders /\ [][NextBuilders]_vars

----------------------------------------------------------------------------
(* Properties of OrbitCamera, checked under SpecOrbit                      *)

\* C1: in every state reached from OrbitCamera::new() through the public
\* methods (limits given with min <= max), min_pitch <= pitch <= max_pitch.
C1_OrbitPitchWithinLimits ==
    orbit.min_pitch <= orbit.pitch /\ orbit.pitch <= orbit.max_pitch

\* a rotate that drove pitch past a configured limit and was clamped to it
C1_Witness ==
    /\ last = Call("rotate", 0, 400000, 0)
    /\ orbit.max_pitch = 1000
    /\ orbit.pitch = orbit.max_pitch

\* C2: in every state reached from OrbitCamera::new() through the public
\* methods (limits given with min <= max, zoom factors of any sign),
\* min_distance <= distance <= max_distance.
C2_OrbitDistanceWithinLimits ==
    orbit.min_distance <= orbit.distance /\ orbit.distance <= orbit.max_distance

\* a zoom whose factor is negative, clamped to a configured minimum
C2_Witness ==
    /\ last = Call("zoom", -20000, 0, 0)
    /\ orbit.min_distance = 30000
    /\ orbit.distance = orbit.min_distance

\* C3: after every public operation the camera is not stale: its position
\* is target + the spherical offset of the current (distance, yaw, pitch)
\* and its rotation is what look_at(target, +Y) gives from that position.
C3_OrbitCameraNeverStale ==
    LET offset == <<Mul(Mul(orbit.distance, Cos(orbit.pitch)), Sin(orbit.yaw)),
                    Mul(orbit.distance, Sin(orbit.pitch)),
                    Mul(Mul(orbit.distance, Cos(orbit.pitch)), Cos(orbit.yaw))>>
        t      == orbit.camera.transform
    IN  /\ t.position = VAdd(orbit.target, offset)
        /\ t.rotation = look_at(t, orbit.target, Y).rotation

\* a pan made after the camera was rotated and zoomed
C3_Witness ==
    /\ last.op = "pan"
    /\ orbit.yaw # 0
    /\ orbit.pitch # 0
    /\ orbit.distance # 10 * SCALE
    /\ orbit.target # ZERO

\* C4: with target (0,0,0), distance 10, yaw 0 and pitch 0 the camera is at
\* (0,0,10) and camera.forward() is (0,0,-1), toward the target.
C4_InitialCameraFacesTarget ==
    (/\ orbit.target = ZERO
     /\ orbit.distance = 10 * SCALE
     /\ orbit.yaw = 0
     /\ orbit.pitch = 0)
    => /\ orbit.camera.transform.position = <<0, 0, 10 * SCALE>>
       /\ Camera_forward(orbit.camera) = <<0, 0, -SCALE>>

----------------------------------------------------------------------------
(* Properties of FixedTimestep, checked under SpecFixed                    *)

\* the calls new(T); update(2T)
AfterDoubleFrame ==
    calls = <<NoCall, Call("update", 2 * fixed.timestep, 0, 0)>>

\* the calls new(T); update(2T); consume_tick()
AfterOneTick ==
    calls = <<NoCall, Call("update", 2 * fixed.timestep, 0, 0), Call("consume_tick", 0, 0, 0)>>

\* the calls new(T); update(2T); consume_tick(); consume_tick()
AfterTwoTicks ==
    calls = <<NoCall, Call("update", 2 * fixed.timestep, 0, 0),
              Call("consume_tick", 0, 0, 0), Call("consume_tick", 0, 0, 0)>>

\* C5 as stated: after new(T) and update(2T) should_update() is true; after
\* exactly one consume_tick() the accumulator is T and should_update() is
\* false.
C5_OneTickLeavesNothingPending ==
    /\ AfterDoubleFrame => should_update(fixed)
    /\ AfterOneTick => fixed.accumulator = fixed.timestep /\ ~should_update(fixed)

\* C5 amended: after new(T) and update(2T) should_update() is true; after
\* exactly one consume_tick() the accumulator is T and should_update() is
\* still true (one whole tick is pending); it is false, with the
\* accumulator at 0, after a second consume_tick().
C5_OneTickLeavesOnePending ==
    /\ AfterDoubleFrame => should_update(fixed)
    /\ AfterOneTick => fixed.accumulator = fixed.timestep /\ should_update(fixed)
    /\ AfterTwoTicks => fixed.accumulator = 0 /\ ~should_update(fixed)

\* new(T); update(2T); consume_tick() has run
C5_Witness == AfterOneTick /\ fixed.accumulator = fixed.timestep

\* what the caller's loop keeps true while it runs and when it ends
C6_LoopInvariant ==
    /\ loop.pc = "while" =>
          /\ fixed.accumulator = loop.start - loop.iterations * fixed.timestep
          /\ loop.iterations <= loop.start \div fixed.timestep
    /\ last.op = "loop_exit" =>
          /\ loop.iterations = loop.start \div fixed.timestep
          /\ fixed.accumulator = loop.start - loop.iterations * fixed.timestep
          /\ 0 <= fixed.accumulator
          /\ fixed.accumulator < fixed.timestep

\* C6: for T > 0 and accumulated time A >= 0 the loop
\* 'while should_update() { consume_tick() }' ends, after exactly
\* floor(A / T) iterations that each take exactly T, with
\* 0 <= accumulator < T.
C6_DrainLoopTerminates ==
    /\ []C6_LoopInvariant
    /\ (loop.pc = "while") ~> (last.op = "loop_exit")

\* the loop has drained a stall of nine ticks
C6_Witness ==
    /\ last.op = "loop_exit"
    /\ loop.start = 9 * fixed.timestep + 4
    /\ loop.iterations = 9
    /\ fixed.accumulator = 4

\* C7: after any update and consume_tick calls interpolation() is
\* min(accumulator / timestep, 1.0) for the accumulator at the time of the
\* call, so it is below 1.0 once the pending ticks are drained.
C7_InterpolationIsCurrentRemainder ==
    interpolation(fixed) = Min(Div(fixed.accumulator, fixed.timestep), SCALE)

----------------------------------------------------------------------------
(* Properties of FlyCamera, checked under SpecFly                          *)

\* C8: in every state reached from FlyCamera::new() through the public
\* methods, min_pitch <= pitch <= max_pitch (stated here for limits given
\* with min <= max, the case in which the interval is not empty).
C8_FlyPitchWithinLimits ==
    (~panicked /\ fly.min_pitch <= fly.max_pitch)
    => (fly.min_pitch <= fly.pitch /\ fly.pitch <= fly.max_pitch)

\* the step is a call of rotate_from_mouse that returned
IsRotateFromMouse ==
    /\ Len(calls') = Len(calls) + 1
    /\ calls'[Len(calls')].op = "rotate_from_mouse"
    /\ ~panicked'

\* C9: right after rotate_from_mouse(delta), with min_pitch <= max_pitch,
\* pitch is in [min_pitch, max_pitch] whatever it was before; a pitch at
\* max_pitch driven further up stays max_pitch and a pitch at min_pitch
\* driven further down stays min_pitch.
C9_RotateFromMouseClamps ==
    [][IsRotateFromMouse =>
        LET dy == calls'[Len(calls')].b
        IN  /\ fly'.min_pitch <= fly'.pitch
            /\ fly'.pitch <= fly'.max_pitch
            /\ (fly.pitch = fly.max_pitch /\ Mul(-dy, fly.sensitivity) > 0)
                   => fly'.pitch = fly.max_pitch
            /\ (fly.pitch = fly.min_pitch /\ Mul(-dy, fly.sensitivity) < 0)
                   => fly'.pitch = fly.min_pitch]_vars

\* pitch was at max_pitch and a second extreme delta left it there
C9_Witness ==
    /\ ~panicked
    /\ Len(calls) >= 3
    /\ last = Call("rotate_from_mouse", 0, -1000000, 0)
    /\ calls[Len(calls) - 1] = last
    /\ fly.pitch = fly.max_pitch

\* the step is a call of one of the translation methods
IsTranslation ==
    /\ Len(calls') = Len(calls) + 1
    /\ calls'[Len(calls')].op \in
          {"move_forward", "move_backward", "move_right", "move_left",
           "move_up", "move_down", "move_wasd"}

\* C10: in every state reached from FlyCamera::new() through the public
\* methods the camera rotation is rotation_y(yaw) * rotation_x(pitch) for
\* the current yaw and pitch, and the translation methods never change it.
C10_FlyRotationFromYawPitch ==
    /\ [](~panicked =>
            fly.camera.transform.rotation =
                QMul(from_rotation_y(fly.yaw), from_rotation_x(fly.pitch)))
    /\ [][IsTranslation =>
            fly'.camera.transform.rotation = fly.camera.transform.rotation]_vars

\* the camera was turned in yaw and pitch and then moved
C10_Witness ==
    /\ ~panicked
    /\ last.op = "move_forward"
    /\ fly.yaw # 0
    /\ fly.pitch # 0
    /\ fly.camera.transform.position # ZERO

----------------------------------------------------------------------------
(* Properties of the OrbitCamera mutators, checked under SpecOrbit         *)

\* the step is a call of OrbitCamera::rotate that returned, made directly or
\* through rotate_from_mouse
IsOrbitRotate ==
    /\ Len(calls') = Len(calls) + 1
    /\ calls'[Len(calls')].op \in {"rotate", "rotate_from_mouse"}
    /\ ~panicked'

\* the delta_pitch that call hands to rotate
RotateDeltaPitch ==
    LET c == calls'[Len(calls')]
    IN  IF c.op = "rotate" THEN c.b ELSE -c.b

\* C11: with pitch equal to max_pitch, a rotate whose pitch delta times
\* rotation_sensitivity is positive leaves pitch exactly max_pitch, and with
\* pitch equal to min_pitch a negative one leaves it exactly min_pitch; as
\* this holds of every such step, repeating the call keeps it saturated.
C11_RotateSaturates ==
    [][IsOrbitRotate =>
        LET d == Mul(RotateDeltaPitch, orbit.rotation_sensitivity)
        IN  /\ (orbit.pitch = orbit.max_pitch /\ d > 0)
                   => orbit'.pitch = orbit.max_pitch
            /\ (orbit.pitch = orbit.min_pitch /\ d < 0)
                   => orbit'.pitch = orbit.min_pitch]_vars

\* the same downward rotate made twice, the second from min_pitch
C11_Witness ==
    /\ ~panicked
    /\ Len(calls) >= 3
    /\ last = Call("rotate", 0, -400000, 0)
    /\ calls[Len(calls) - 1] = last
    /\ orbit.pitch = orbit.min_pitch

\* C12 as stated: every rotate(dy, dp) with dp # 0 leaves a pitch that
\* differs from the pitch before the call.
C12_RotateAlwaysChangesPitch ==
    [][(IsOrbitRotate /\ RotateDeltaPitch # 0)
           => orbit'.pitch # orbit.pitch]_vars

\* C12 amended: a rotate(dy, dp) with dp * rotation_sensitivity # 0 changes
\* pitch unless pitch is already at the limit the delta drives it to
\* (max_pitch for a positive delta, min_pitch for a negative one), in
\* which case pitch stays at that limit.
C12_RotateChangesPitchUnlessSaturated ==
    [][IsOrbitRotate =>
        LET d         == Mul(RotateDeltaPitch, orbit.rotation_sensitivity)
            saturated == \/ (orbit.pitch = orbit.max_pitch /\ d > 0)
                         \/ (orbit.pitch = orbit.min_pitch /\ d < 0)
        IN  d # 0 => (orbit'.pitch = orbit.pitch <=> saturated)]_vars

\* a rotate from inside the limits that was clamped, so that pitch moved by
\* less than the delta asked for
C12_Witness ==
    /\ ~panicked
    /\ calls = <<NoCall, Call("rotate", 1000, 500, 0), Call("rotate", 0, 400000, 0)>>
    /\ orbit.pitch = orbit.max_pitch

\* the step is a call of OrbitCamera::zoom that returned
IsOrbitZoom ==
    /\ Len(calls') = Len(calls) + 1
    /\ calls'[Len(calls')].op = "zoom"
    /\ ~panicked'

\* the factor that call multiplies the distance by
ZoomFactor == SCALE + Mul(calls'[Len(calls')].a, orbit.zoom_sensitivity)

\* C13 as stated: every zoom(d) with d # 0 leaves a distance that differs
\* from the distance before the call.
C13_ZoomAlwaysChangesDistance ==
    [][(IsOrbitZoom /\ calls'[Len(calls')].a # 0)
           => orbit'.distance # orbit.distance]_vars

\* C13 amended: a zoom(d) with d * zoom_sensitivity # 0 changes the
\* distance unless the distance is already at the limit the factor drives
\* it to (max_distance for a factor above 1, min_distance for a factor
\* below 1, negative factors included), in which case it stays there.
C13_ZoomChangesDistanceUnlessSaturated ==
    [][IsOrbitZoom =>
        LET saturated == \/ (orbit.distance = orbit.max_distance /\ ZoomFactor > SCALE)
                         \/ (orbit.distance = orbit.min_distance /\ ZoomFactor < SCALE)
        IN  ZoomFactor # SCALE
               => (orbit'.distance = orbit.distance <=> saturated)]_vars

\* a zoom out from inside the limits that was clamped at max_distance
C13_Witness ==
    /\ ~panicked
    /\ Len(calls) >= 3
    /\ last = Call("zoom", 10000, 0, 0)
    /\ calls[Len(calls) - 1].op = "with_distance_limits"
    /\ orbit.distance = orbit.max_distance
    /\ orbit.max_distance = 50000

\* the step is a call of OrbitCamera::pan
IsOrbitPan ==
    /\ Len(calls') = Len(calls) + 1
    /\ calls'[Len(calls')].op = "pan"

\* C14: pan(delta_right, delta_up) moves the target by
\* right * delta_right + up * delta_up, right and up being those of the
\* camera before the call; distance, yaw and pitch keep their values and
\* the camera position moves by the same vector as the target.
C14_PanMovesTargetAndCamera ==
    [][IsOrbitPan =>
        LET c         == calls'[Len(calls')]
            pan_delta == VAdd(VScale(Camera_right(orbit.camera), c.a),
                              VScale(Camera_up(orbit.camera), c.b))
        IN  /\ orbit'.target = VAdd(orbit.target, pan_delta)
            /\ orbit'.distance = orbit.distance
            /\ orbit'.yaw = orbit.yaw
            /\ orbit'.pitch = orbit.pitch
            /\ VSub(orbit'.camera.transform.position, orbit.camera.transform.position)
                   = VSub(orbit'.target, orbit.target)]_vars

\* a pan along both axes made after the camera was turned in yaw and pitch
C14_Witness ==
    /\ last = Call("pan", -2000, 500, 0)
    /\ orbit.yaw # 0
    /\ orbit.pitch # 0
    /\ orbit.target # ZERO

----------------------------------------------------------------------------
(* Properties of the FlyCamera mutators, checked under SpecFly             *)

\* C15: rotate_from_mouse(delta) adds delta.x * sensitivity to yaw, which is
\* never clamped, and adds -delta.y * sensitivity to pitch before the clamp,
\* so that a pointer move up (delta.y < 0) raises a pitch that is below
\* max_pitch; from FlyCamera::new(), rotate_from_mouse((100, 50)) changes
\* both yaw and pitch.
C15_FlyRotateFromMouse ==
    [][IsRotateFromMouse =>
        LET c == calls'[Len(calls')]
        IN  /\ fly'.yaw = fly.yaw + Mul(c.a, fly.sensitivity)
            /\ fly'.pitch = Clamp(fly.pitch + Mul(-c.b, fly.sensitivity),
                                  fly.min_pitch, fly.max_pitch)
            /\ (c.b < 0 /\ fly.sensitivity > 0 /\ fly.pitch < fly.max_pitch)
                   => fly'.pitch > fly.pitch
            /\ (calls = <<NoCall>> /\ c.a = 100000 /\ c.b = 50000)
                   => (fly'.yaw # fly.yaw /\ fly'.pitch # fly.pitch)]_vars

\* rotate_from_mouse((100, 50)) on a new camera: yaw 0.2, pitch -0.1
C15_Witness ==
    /\ calls = <<NoCall, Call("rotate_from_mouse", 100000, 50000, 0)>>
    /\ fly.yaw = 200
    /\ fly.pitch = -100

\* the step is a call of the method op
IsFlyCall(op) ==
    /\ Len(calls') = Len(calls) + 1
    /\ calls'[Len(calls')].op = op

\* C16: with speed # 0, whatever the orientation, move_forward(1.0) changes
\* the position; move_forward(a) adds forward * a * speed to it, and
\* move_backward(a) does what move_forward(-a) does.
C16_MoveForwardBackward ==
    [][LET a == calls'[Len(calls')].a
           p == fly.camera.transform.position
           f == Camera_forward(fly.camera)
       IN  /\ IsFlyCall("move_forward") =>
                 /\ fly' = [fly EXCEPT !.camera.transform.position =
                                VAdd(p, VScale(VScale(f, a), fly.speed))]
                 /\ (fly.speed # 0 /\ a = SCALE)
                        => fly'.camera.transform.position # p
           /\ IsFlyCall("move_backward") =>
                 fly' = [fly EXCEPT !.camera.transform.position =
                            VAdd(p, VScale(VScale(f, -a), fly.speed))]]_vars

\* move_forward(1.0) made after the camera was turned in yaw and pitch
C16_Witness ==
    /\ ~panicked
    /\ last = Call("move_forward", SCALE, 0, 0)
    /\ fly.yaw # 0
    /\ fly.pitch # 0
    /\ fly.speed # 0

\* C17: move_up(a) adds a * speed to the world Y of the position and
\* move_down(a) subtracts it, for every yaw and pitch; the X and Z of the
\* position, yaw, pitch and the rotation keep their values.
C17_MoveUpDownAlongWorldY ==
    [][LET a == calls'[Len(calls')].a
           p == fly.camera.transform.position
       IN  /\ IsFlyCall("move_up") =>
                 fly' = [fly EXCEPT !.camera.transform.position =
                            <<p[1], p[2] + Mul(a, fly.speed), p[3]>>]
           /\ IsFlyCall("move_down") =>
                 fly' = [fly EXCEPT !.camera.transform.position =
                            <<p[1], p[2] - Mul(a, fly.speed), p[3]>>]]_vars

\* move_up made with the camera pitched and turned, so that its own up
\* axis is not world Y
C17_Witness ==
    /\ ~panicked
    /\ last.op = "move_up"
    /\ fly.yaw # 0
    /\ fly.pitch # 0
    /\ fly.speed # 0
    /\ Camera_up(fly.camera) # Y

\* C18: move_wasd(0, 0, dt) leaves the position unchanged for every dt and
\* orientation, and no move_wasd changes yaw, pitch or the rotation.
C18_MoveWasdZeroInput ==
    [][IsFlyCall("move_wasd") =>
        LET c == calls'[Len(calls')]
        IN  /\ (c.a = 0 /\ c.b = 0)
                   => fly'.camera.transform.position = fly.camera.transform.position
            /\ fly'.yaw = fly.yaw
            /\ fly'.pitch = fly.pitch
            /\ fly'.camera.transform.rotation = fly.camera.transform.rotation]_vars

\* move_wasd(0, 0, dt) made on a turned camera away from the origin
C18_Witness ==
    /\ ~panicked
    /\ last = Call("move_wasd", 0, 0, 16)
    /\ fly.yaw # 0
    /\ fly.speed # 0
    /\ fly.camera.transform.position # ZERO

----------------------------------------------------------------------------
(* Properties of Transform, checked under SpecTransform                    *)

\* C19: for a Transform whose rotation is the identity, model_matrix() is
\* exact: the columns are (scale.x,0,0,0), (0,scale.y,0,0), (0,0,scale.z,0)
\* and (position, 1).  So identity() gives the 4x4 identity,
\* from_position(p) the translation by p and from_scale(s) the matrix
\* diag(s.x, s.y, s.z, 1).
C19_ModelMatrixExact ==
    /\ transform.rotation = IDENTITY_QUAT =>
          model_matrix(transform) =
              <<<<transform.scale[1], 0, 0, 0>>,
                <<0, transform.scale[2], 0, 0>>,
                <<0, 0, transform.scale[3], 0>>,
                <<transform.position[1], transform.position[2],
                  transform.position[3], SCALE>>>>
    /\ last.op = "IDENTITY" => model_matrix(transform) = IDENTITY_MAT4
    /\ last.op = "from_position" =>
          model_matrix(transform) = from_translation(<<last.a, last.b, last.c>>)
    /\ last.op = "from_scale" =>
          model_matrix(transform) = Mat4_from_scale(<<last.a, last.b, last.c>>)

\* from_position((1, 2, 3)) given the scale (2, 3, 4): the rotation is the
\* identity and neither the translation nor the scale is trivial
C19_Witness ==
    /\ calls = <<Call("from_position", 1000, 2000, 3000),
                 Call("with_scale", 2000, 3000, 4000)>>
    /\ transform.rotation = IDENTITY_QUAT
    /\ model_matrix(transform)[2] = <<0, 3000, 0, 0>>
    /\ model_matrix(transform)[4] = <<1000, 2000, 3000, SCALE>>

\* |q|^2, in units of 1 / SCALE^2
LengthSquared(q) == q[1] * q[1] + q[2] * q[2] + q[3] * q[3] + q[4] * q[4]

\* q has norm 1 as far as the arithmetic can tell: |q|^2 is within three
\* units of the last digit of 1, which is where rounding the four
\* components of an exactly unit quaternion, or renormalizing one, leaves it
UnitNorm(q) ==
    /\ q # NaNQ
    /\ Abs(LengthSquared(q) - SCALE * SCALE) <= 3 * SCALE

\* the rotation the Transform was constructed with
StartRotation ==
    IF calls[1].op = "from_rotation"
    THEN AxisRotation(<<calls[1].a, calls[1].b>>)
    ELSE IDENTITY_QUAT

\* every call since the construction was a rotate_by with a unit-norm
\* argument
OnlyUnitRotateBy ==
    \A i \in 2..Len(calls) :
        /\ calls[i].op = "rotate_by"
        /\ UnitNorm(AxisRotation(<<calls[i].a, calls[i].b>>))

\* C20: starting from a unit-norm rotation, after any sequence of
\* rotate_by calls with unit-norm arguments the stored rotation is still
\* unit-norm.
C20_RotationStaysUnitNorm ==
    (UnitNorm(StartRotation) /\ OnlyUnitRotateBy) => UnitNorm(transform.rotation)

\* the step is a call of the Transform method op
IsTransformCall(op) ==
    /\ Len(calls') = Len(calls) + 1
    /\ calls'[Len(calls')].op = op

\* the Transform was constructed and then given rotate_by(a) and rotate_by(b)
TwoRotateBy ==
    /\ Len(calls) = 3
    /\ calls[2].op = "rotate_by"
    /\ calls[3].op = "rotate_by"

FirstRotation == AxisRotation(<<calls[2].a, calls[2].b>>)

SecondRotation == AxisRotation(<<calls[3].a, calls[3].b>>)

\* r0 * a * b, what post-multiplying twice would have stored
LocalSpaceResult == QMul(QMul(StartRotation, FirstRotation), SecondRotation)

\* C21 as stated: after rotate_by(a) then rotate_by(b) on r0 the rotation
\* is b * a * r0, which differs from r0 * a * b whenever the rotations do
\* not commute.
C21_WorldDiffersFromLocalWheneverNotCommuting ==
    TwoRotateBy =>
        /\ transform.rotation = QMul(SecondRotation, QMul(FirstRotation, StartRotation))
        /\ QMul(FirstRotation, SecondRotation) # QMul(SecondRotation, FirstRotation)
               => transform.rotation # LocalSpaceResult

\* C21 amended: every rotate_by(d) stores d * rotation and leaves position
\* and scale as they were, so rotate_by(a) then rotate_by(b) on r0 stores
\* b * (a * r0); on the identity r0 this differs from the local-space
\* result a * b whenever a and b do not commute.
C21_RotateByPreMultiplies ==
    /\ [][IsTransformCall("rotate_by") =>
            LET c == calls'[Len(calls')]
            IN  transform' = [transform EXCEPT
                                 !.rotation = QMul(AxisRotation(<<c.a, c.b>>),
                                                   transform.rotation)]]_vars
    /\ [](TwoRotateBy =>
            /\ transform.rotation =
                   QMul(SecondRotation, QMul(FirstRotation, StartRotation))
            /\ (/\ StartRotation = IDENTITY_QUAT
                /\ QMul(FirstRotation, SecondRotation)
                       # QMul(SecondRotation, FirstRotation))
                   => transform.rotation # LocalSpaceResult)

\* two rotations that do not commute, applied to a turned Transform: the
\* stored rotation is not the local-space one
C21_Witness ==
    /\ calls = <<Call("from_rotation", 2, HALF_PI, 0),
                 Call("rotate_by", 1, 700, 0),
                 Call("rotate_by", 2, -2500, 0)>>
    /\ transform.rotation # LocalSpaceResult
    /\ transform.position = ZERO
    /\ transform.scale = ONE

\* C22: under the identity rotation forward() = (0,0,-1), right() = (1,0,0)
\* and up() = (0,1,0); for every rotation back() = -forward(),
\* left() = -right() and down() = -up(); and under a rotation of +90
\* degrees about Y forward() is -X (to the last digit).
C22_DirectionAccessors ==
    /\ transform.rotation = IDENTITY_QUAT =>
          /\ forward(transform) = NEG_Z
          /\ right(transform) = X
          /\ up(transform) = Y
    /\ back(transform) = VNeg(forward(transform))
    /\ left(transform) = VNeg(right(transform))
    /\ down(transform) = VNeg(up(transform))
    /\ transform.rotation = from_rotation_y(HALF_PI) =>
          /\ Abs(forward(transform)[1] - NEG_X[1]) <= 2
          /\ Abs(forward(transform)[2]) <= 2
          /\ Abs(forward(transform)[3]) <= 2

\* an identity Transform turned by +90 degrees about Y
C22_Witness ==
    /\ calls = <<Call("IDENTITY", 0, 0, 0), Call("rotate_by", 2, HALF_PI, 0)>>
    /\ transform.rotation = from_rotation_y(HALF_PI)
    /\ forward(transform)[1] < -900

----------------------------------------------------------------------------
(* Properties of Camera, checked under SpecCamera                          *)

\* the step is a call of the Camera method op
IsCameraCall(op) ==
    /\ Len(calls') = Len(calls) + 1
    /\ calls'[Len(calls')].op = op

\* C23: with_fov, with_clipping_planes and with_aspect_ratio store their
\* arguments as given and never fail, whatever the values (near >= far, a
\* zero or negative angle or ratio), and each leaves every other field of
\* the camera, the transform included, as it was.
C23_CameraSettersStoreUnchecked ==
    [][LET c == calls'[Len(calls')]
       IN  /\ IsCameraCall("with_fov") =>
                 camera' = [camera EXCEPT !.fov_y = c.a] /\ ~panicked'
           /\ IsCameraCall("with_clipping_planes") =>
                 camera' = [camera EXCEPT !.near = c.a, !.far = c.b] /\ ~panicked'
           /\ IsCameraCall("with_aspect_ratio") =>
                 camera' = [camera EXCEPT !.aspect_ratio = c.a] /\ ~panicked']_vars

\* inverted clipping planes stored on a camera that was moved and turned
C23_Witness ==
    /\ last = Call("with_clipping_planes", 100000, 10, 0)
    /\ camera.near = 100000
    /\ camera.far = 10
    /\ camera.transform.position # ZERO
    /\ camera.transform.rotation # IDENTITY_QUAT

----------------------------------------------------------------------------
(* Properties of InputState, checked under SpecInput                       *)

IsInputCall(op) ==
    /\ Len(calls') = Len(calls) + 1
    /\ calls'[Len(calls')].op = op

\* C24: update() empties the just-pressed and just-released sets of the
\* keys and of the mouse buttons, so that no key or button is reported as
\* just pressed or just released after it, and leaves the sets of held keys
\* and held buttons as they were.
C24_UpdateClearsJustSets ==
    [][IsInputCall("update") =>
          /\ input'.keys_just_pressed = {}
          /\ input'.keys_just_released = {}
          /\ input'.mouse_buttons_just_pressed = {}
          /\ input'.mouse_buttons_just_released = {}
          /\ \A k \in KeyCodes :
                /\ ~is_key_just_pressed(input', k)
                /\ ~is_key_just_released(input', k)
                /\ is_key_pressed(input', k) = is_key_pressed(input, k)
          /\ \A b \in MouseButtons :
                /\ ~is_mouse_button_just_pressed(input', b)
                /\ ~is_mouse_button_just_released(input', b)
                /\ is_mouse_button_pressed(input', b) = is_mouse_button_pressed(input, b)
          /\ input'.keys_pressed = input.keys_pressed
          /\ input'.mouse_buttons_pressed = input.mouse_buttons_pressed]_vars

\* a key and a button went down in the frame that update() has just ended
C24_Witness ==
    /\ Len(calls) = 4
    /\ calls[2].op = "KeyboardInput" /\ calls[2].a = "KeyW" /\ calls[2].b = "Pressed"
    /\ calls[3].op = "MouseInput" /\ calls[3].a = "Left" /\ calls[3].b = "Pressed"
    /\ calls[4].op = "update"
    /\ input.keys_pressed = {"KeyW"}
    /\ input.mouse_buttons_pressed = {"Left"}
    /\ input.keys_just_pressed = {}
    /\ input.mouse_buttons_just_pressed = {}

\* state of the most recent event of kind op for key or button x among the
\* first n calls; "None" when there was none
RECURSIVE MostRecentState(_, _, _)
MostRecentState(op, x, n) ==
    IF n = 0 THEN "None"
    ELSE IF calls[n].op = op /\ calls[n].a = x THEN calls[n].b
    ELSE MostRecentState(op, x, n - 1)

\* the call just made is not an event for key or button x
NotAnEventFor(op, x) ==
    /\ Len(calls') = Len(calls) + 1
    /\ ~(calls'[Len(calls')].op = op /\ calls'[Len(calls')].a = x)

\* C25: is_key_pressed(k) is true exactly when the most recent keyboard
\* event for k was Pressed, and is_mouse_button_pressed(b) exactly when the
\* most recent button event for b was Pressed; update() and the events of
\* other keys, of other buttons and of other kinds leave both as they were.
C25_HeldIffLastEventPressed ==
    /\ [](/\ \A k \in KeyCodes :
               is_key_pressed(input, k)
                   <=> MostRecentState("KeyboardInput", k, Len(calls)) = "Pressed"
          /\ \A b \in MouseButtons :
               is_mouse_button_pressed(input, b)
                   <=> MostRecentState("MouseInput", b, Len(calls)) = "Pressed")
    /\ [][/\ \A k \in KeyCodes :
               NotAnEventFor("KeyboardInput", k)
                   => is_key_pressed(input', k) = is_key_pressed(input, k)
          /\ \A b \in MouseButtons :
               NotAnEventFor("MouseInput", b)
                   => is_mouse_button_pressed(input', b) = is_mouse_button_pressed(input, b)]_vars

\* W and the button are held across an update() and across the press and
\* the release of another key
C25_Witness ==
    /\ Len(calls) = 5
    /\ calls[2].op = "KeyboardInput" /\ calls[2].a = "KeyW" /\ calls[2].b = "Pressed"
    /\ calls[3].op = "update"
    /\ calls[4].op = "KeyboardInput" /\ calls[4].a = "ArrowUp" /\ calls[4].b = "Pressed"
    /\ calls[5].op = "KeyboardInput" /\ calls[5].a = "ArrowUp" /\ calls[5].b = "Released"
    /\ is_key_pressed(input, "KeyW")
    /\ ~is_key_pressed(input, "ArrowUp")

\* index of the most recent update() among the first n calls, 0 when there
\* was none: the events of the current frame are the calls after it
RECURSIVE FrameStart(_)
FrameStart(n) ==
    IF n = 0 THEN 0
    ELSE IF calls[n].op = "update" THEN n
    ELSE FrameStart(n - 1)

\* the current frame has a Pressed event for x that found x not held
FirstPressInFrame(op, x) ==
    \E i \in (FrameStart(Len(calls)) + 1)..Len(calls) :
        /\ calls[i].op = op /\ calls[i].a = x /\ calls[i].b = "Pressed"
        /\ MostRecentState(op, x, i - 1) # "Pressed"

\* the call just made is the event op(x, state)
IsElementEvent(op, x, state) ==
    /\ IsInputCall(op)
    /\ calls'[Len(calls')].a = x
    /\ calls'[Len(calls')].b = state

\* C27: a Pressed event for a key (or button) that is already held leaves
\* the just-pressed set as it was, so a key repeat does not trigger again;
\* a key is reported just pressed exactly in the frame (the events since the
\* last update()) that holds a Pressed event which found the key not held.
C27_RepeatIsNotJustPressed ==
    /\ [][/\ \A k \in KeyCodes :
               (IsElementEvent("KeyboardInput", k, "Pressed") /\ is_key_pressed(input, k))
                   => /\ input'.keys_just_pressed = input.keys_just_pressed
                      /\ is_key_pressed(input', k)
          /\ \A b \in MouseButtons :
               (IsElementEvent("MouseInput", b, "Pressed") /\ is_mouse_button_pressed(input, b))
                   => /\ input'.mouse_buttons_just_pressed = input.mouse_buttons_just_pressed
                      /\ is_mouse_button_pressed(input', b)]_vars
    /\ [](/\ \A k \in KeyCodes :
               is_key_just_pressed(input, k) <=> FirstPressInFrame("KeyboardInput", k)
          /\ \A b \in MouseButtons :
               is_mouse_button_just_pressed(input, b) <=> FirstPressInFrame("MouseInput", b))

\* W went down in the frame before and repeats in this one
C27_Witness ==
    /\ Len(calls) = 4
    /\ calls[2].op = "KeyboardInput" /\ calls[2].a = "KeyW" /\ calls[2].b = "Pressed"
    /\ calls[3].op = "update"
    /\ calls[4].op = "KeyboardInput" /\ calls[4].a = "KeyW" /\ calls[4].b = "Pressed"
    /\ is_key_pressed(input, "KeyW")
    /\ ~is_key_just_pressed(input, "KeyW")

\* what the call at index i adds to component j of the wheel delta: a line
\* delta as it is, a pixel delta divided by 50 pixels per line
WheelLines(i, j) ==
    IF calls[i].op # "MouseWheel" THEN 0
    ELSE IF calls[i].c = "LineDelta"
         THEN (IF j = 1 THEN calls[i].a ELSE calls[i].b)
         ELSE (IF j = 1 THEN calls[i].a ELSE calls[i].b) \div 50

\* sum of component j over the calls after index from, up to index n
RECURSIVE WheelSum(_, _, _)
WheelSum(from, n, j) ==
    IF n <= from THEN 0
    ELSE WheelSum(from, n - 1, j) + WheelLines(n, j)

\* C28: mouse_wheel_delta() is the sum of the MouseWheel events received
\* since the last update(), line deltas counted as they are and pixel deltas
\* divided by 50; update() puts it back to (0, 0).
C28_WheelDeltaIsFrameSum ==
    /\ [](mouse_wheel_delta(input) =
             <<WheelSum(FrameStart(Len(calls)), Len(calls), 1),
               WheelSum(FrameStart(Len(calls)), Len(calls), 2)>>)
    /\ [][IsInputCall("update") => mouse_wheel_delta(input') = <<0, 0>>]_vars

\* a line delta of the frame before is gone; this frame has a pixel delta
\* of (100, -25) pixels and a line delta of (0, 1)
C28_Witness ==
    /\ Len(calls) = 5
    /\ calls[2].op = "MouseWheel" /\ calls[2].c = "LineDelta"
    /\ calls[3].op = "update"
    /\ calls[4].op = "MouseWheel" /\ calls[4].c = "PixelDelta"
    /\ calls[5].op = "MouseWheel" /\ calls[5].c = "LineDelta"
    /\ mouse_wheel_delta(input) = <<2000, 500>>

\* cursor position after the first n calls as the events give it: that of
\* the last CursorMoved unless a CursorLeft followed it
RECURSIVE CursorAfter(_)
CursorAfter(n) ==
    IF n = 0 THEN None
    ELSE IF calls[n].op = "CursorMoved" THEN <<calls[n].a, calls[n].b>>
    ELSE IF calls[n].op = "CursorLeft" THEN None
    ELSE CursorAfter(n - 1)

\* position recorded at the most recent update(), None before the first
PositionAtLastUpdate ==
    IF FrameStart(Len(calls)) = 0 THEN None ELSE CursorAfter(FrameStart(Len(calls)))

\* the cursor left the window after the most recent update()
LeftSinceLastUpdate ==
    \E i \in (FrameStart(Len(calls)) + 1)..Len(calls) : calls[i].op = "CursorLeft"

\* mouse_delta() is the current position minus the one recorded at the most
\* recent update() when both exist and None otherwise
MouseDeltaSinceLastUpdate ==
    mouse_delta(input) =
        IF PositionAtLastUpdate # None /\ CursorAfter(Len(calls)) # None
        THEN <<CursorAfter(Len(calls))[1] - PositionAtLastUpdate[1],
               CursorAfter(Len(calls))[2] - PositionAtLastUpdate[2]>>
        ELSE None

\* mouse_delta() is (0, 0) right after update() with a cursor present
MouseDeltaZeroAfterUpdate ==
    (last.op = "update" /\ mouse_position(input) # None) => mouse_delta(input) = <<0, 0>>

\* mouse_delta() is None right after CursorLeft
MouseDeltaNoneAfterCursorLeft ==
    last.op = "CursorLeft" => mouse_delta(input) = None

\* C29: mouse_delta() is the current position minus the position recorded
\* at the most recent update() when both exist and None otherwise; it is
\* (0, 0) right after update() with a cursor present and None after
\* CursorLeft; and once the cursor has left the window, no delta is measured
\* against a position recorded before it left: a frame in which the cursor
\* left has no delta, whether or not the cursor has come back.
C29_NoDeltaAcrossCursorLeft ==
    /\ ~LeftSinceLastUpdate => MouseDeltaSinceLastUpdate
    /\ MouseDeltaZeroAfterUpdate
    /\ MouseDeltaNoneAfterCursorLeft
    /\ LeftSinceLastUpdate => mouse_delta(input) = None

\* x went down and came up again inside the current frame: the frame has a
\* Pressed event that found x not held, and the last event for x is Released
PressedAndReleasedInFrame(op, x) ==
    /\ FirstPressInFrame(op, x)
    /\ MostRecentState(op, x, Len(calls)) = "Released"

\* a key or button pressed and released between two update() calls is
\* reported just pressed and just released, and not held
TapIsNotLost ==
    /\ \A k \in KeyCodes :
          PressedAndReleasedInFrame("KeyboardInput", k)
              => /\ is_key_just_pressed(input, k)
                 /\ is_key_just_released(input, k)
                 /\ ~is_key_pressed(input, k)
    /\ \A b \in MouseButtons :
          PressedAndReleasedInFrame("MouseInput", b)
              => /\ is_mouse_button_just_pressed(input, b)
                 /\ is_mouse_button_just_released(input, b)
                 /\ ~is_mouse_button_pressed(input, b)

\* C30: a key (or mouse button) pressed and released between two update()
\* calls is reported just pressed and just released at once while it is not
\* reported held; and a Released event for a key (or button) that was not
\* held immediately before it leaves the just-released set as it was.
C30_ReleasedMarksOnlyHeldKeys ==
    /\ []TapIsNotLost
    /\ [][/\ \A k \in KeyCodes :
               (IsElementEvent("KeyboardInput", k, "Released") /\ ~is_key_pressed(input, k))
                   => input'.keys_just_released = input.keys_just_released
          /\ \A b \in MouseButtons :
               (IsElementEvent("MouseInput", b, "Released") /\ ~is_mouse_button_pressed(input, b))
                   => input'.mouse_buttons_just_released = input.mouse_buttons_just_released]_vars

----------------------------------------------------------------------------
(* Properties of InputMap, checked under SpecInputMap                      *)

\* keys or buttons that the first n calls have bound to the action by op
\* ("bind_key" or "bind_mouse_button") and not unbound since
RECURSIVE BoundTo(_, _, _)
BoundTo(op, action, n) ==
    IF n = 0 THEN {}
    ELSE IF calls[n].op = "clear_bindings" THEN {}
    ELSE IF calls[n].op = "unbind_action" /\ calls[n].a = action THEN {}
    ELSE IF calls[n].op = op /\ calls[n].a = action
         THEN BoundTo(op, action, n - 1) \cup {calls[n].b}
    ELSE BoundTo(op, action, n - 1)

IsInputMapCall(op) ==
    /\ Len(calls') = Len(calls) + 1
    /\ calls'[Len(calls')].op = op

\* C26: is_action_active(action) is true exactly when a key or a mouse
\* button bound to the action is held, and is_action_just_pressed(action)
\* exactly when a bound key or button was just pressed; an action without
\* bindings is not active, and neither is an action right after
\* unbind_action(action) or any action right after clear_bindings().
C26_ActionActiveIffBoundHeld ==
    /\ [](\A action \in ActionNames :
            /\ is_action_active(input_map, action, input)
                 <=> \/ \E k \in BoundTo("bind_key", action, Len(calls)) :
                          is_key_pressed(input, k)
                     \/ \E b \in BoundTo("bind_mouse_button", action, Len(calls)) :
                          is_mouse_button_pressed(input, b)
            /\ is_action_just_pressed(input_map, action, input)
                 <=> \/ \E k \in BoundTo("bind_key", action, Len(calls)) :
                          is_key_just_pressed(input, k)
                     \/ \E b \in BoundTo("bind_mouse_button", action, Len(calls)) :
                          is_mouse_button_just_pressed(input, b)
            /\ (/\ action \notin DOMAIN input_map.keyboard_bindings
                /\ action \notin DOMAIN input_map.mouse_bindings)
                 => /\ ~is_action_active(input_map, action, input)
                    /\ ~is_action_just_pressed(input_map, action, input))
    /\ [][/\ IsInputMapCall("unbind_action")
               => ~is_action_active(input_map', calls'[Len(calls')].a, input')
          /\ IsInputMapCall("clear_bindings")
               => \A action \in ActionNames :
                     ~is_action_active(input_map', action, input')]_vars

\* the second key bound to move_forward is held; the button is held too but
\* nothing is bound to fire
C26_Witness ==
    /\ Len(calls) = 5
    /\ calls[2].op = "bind_key" /\ calls[2].a = "move_forward" /\ calls[2].b = "KeyW"
    /\ calls[3].op = "bind_key" /\ calls[3].a = "move_forward" /\ calls[3].b = "ArrowUp"
    /\ calls[4].op = "KeyboardInput" /\ calls[4].a = "ArrowUp" /\ calls[4].b = "Pressed"
    /\ calls[5].op = "MouseInput" /\ calls[5].a = "Left" /\ calls[5].b = "Pressed"
    /\ is_action_active(input_map, "move_forward", input)
    /\ is_action_just_pressed(input_map, "move_forward", input)
    /\ ~is_action_active(input_map, "fire", input)

----------------------------------------------------------------------------
(* Properties of the builder chains, checked under SpecBuilders            *)

\* the chain new().with_distance(d).with_distance_limits(min, max)
DistanceThenLimits ==
    /\ Len(calls) = 3
    /\ calls[2].op = "with_distance"
    /\ calls[3].op = "with_distance_limits"
    /\ ~panicked

\* the chain new().with_distance_limits(min, max).with_distance(d)
LimitsThenDistance ==
    /\ Len(calls) = 3
    /\ calls[2].op = "with_distance_limits"
    /\ calls[3].op = "with_distance"
    /\ ~panicked

IsBuilderCall(op) ==
    /\ Len(calls') = Len(calls) + 1
    /\ calls'[Len(calls')].op = op

\* the limits given to the call just made are inverted
InvertedArguments == calls'[Len(calls')].a > calls'[Len(calls')].b

\* C32: OrbitCamera::with_distance_limits(min, max) and with_pitch_limits(min,
\* max) with min > max panic and return no camera, so no OrbitCamera ever
\* holds inverted limits; FlyCamera::with_pitch_limits(min, max) with
\* min > max returns normally with the limits stored, and the next
\* rotate_from_mouse on that camera panics.
C32_InvertedLimitsPanic ==
    /\ [][/\ (IsBuilderCall("with_distance_limits") /\ InvertedArguments)
               => panicked' /\ orbit' = orbit
          /\ (IsBuilderCall("with_pitch_limits") /\ InvertedArguments)
               => panicked' /\ orbit' = orbit
          /\ (IsBuilderCall("FlyCamera::with_pitch_limits") /\ InvertedArguments)
               => /\ ~panicked'
                  /\ fly'.min_pitch = calls'[Len(calls')].a
                  /\ fly'.max_pitch = calls'[Len(calls')].b
                  /\ fly'.min_pitch > fly'.max_pitch
          /\ (IsBuilderCall("FlyCamera::rotate_from_mouse") /\ fly.min_pitch > fly.max_pitch)
               => panicked']_vars
    /\ [](/\ orbit.min_distance <= orbit.max_distance
          /\ orbit.min_pitch <= orbit.max_pitch)

\* the FlyCamera took inverted pitch limits without complaint and the first
\* rotate_from_mouse after it panicked
C32_Witness ==
    /\ Len(calls) = 3
    /\ calls[2].op = "FlyCamera::with_pitch_limits" /\ calls[2].a > calls[2].b
    /\ calls[3].op = "FlyCamera::rotate_from_mouse"
    /\ fly.min_pitch > fly.max_pitch
    /\ panicked

----------------------------------------------------------------------------
(* Properties of FixedTimestep over whole call sequences, checked under    *)
(* SpecFixed                                                               *)

\* sum of the deltas given to update among the first n calls
RECURSIVE SumOfDeltas(_)
SumOfDeltas(n) ==
    IF n = 0 THEN 0
    ELSE SumOfDeltas(n - 1) + (IF calls[n].op = "update" THEN calls[n].a ELSE 0)

\* number of consume_tick calls among the first n that were made while a
\* tick was pending, that is, while the deltas so far less the ticks taken
\* so far came to a timestep or more
RECURSIVE TicksTaken(_)
TicksTaken(n) ==
    IF n = 0 THEN 0
    ELSE LET taken == TicksTaken(n - 1)
         IN  IF /\ calls[n].op = "consume_tick"
                /\ SumOfDeltas(n - 1) - fixed.timestep * taken >= fixed.timestep
             THEN taken + 1 ELSE taken

\* C33: with a timestep T > 0 and non-negative deltas, after any
\* interleaving of update and consume_tick the accumulator is not negative
\* and equals the sum of the deltas less T times the number of consume_tick
\* calls made while a tick was pending; a consume_tick made while no tick is
\* pending changes nothing.
C33_AccumulatorIsSumLessTicks ==
    /\ [](/\ fixed.timestep > 0
          /\ fixed.accumulator >= 0
          /\ fixed.accumulator
                = SumOfDeltas(Len(calls)) - fixed.timestep * TicksTaken(Len(calls)))
    /\ [][(/\ Len(calls') = Len(calls) + 1
           /\ calls'[Len(calls')].op = "consume_tick"
           /\ ~should_update(fixed))
              => fixed' = fixed]_vars

\* a consume_tick with nothing pending, then two timesteps of time and one
\* tick taken
C33_Witness ==
    /\ Len(calls) = 4
    /\ calls[2].op = "consume_tick"
    /\ calls[3].op = "update" /\ calls[3].a = 2 * fixed.timestep
    /\ calls[4].op = "consume_tick"
    /\ TicksTaken(Len(calls)) = 1
    /\ fixed.accumulator = fixed.timestep

----------------------------------------------------------------------------
(* Properties of FpsCounter, checked under SpecFps                         *)

\* the frame times given to update since the construction or the last
\* reset, oldest first, among the first n calls
RECURSIVE DeltasSinceReset(_)
DeltasSinceReset(n) ==
    IF n = 0 THEN <<>>
    ELSE IF calls[n].op = "reset" THEN <<>>
    ELSE IF calls[n].op = "update" THEN Append(DeltasSinceReset(n - 1), calls[n].a)
    ELSE DeltasSinceReset(n - 1)

\* the last k elements of v, all of v when it has fewer
LastOf(v, k) == SubSeq(v, Len(v) - Min(k, Len(v)) + 1, Len(v))

\* C34: after any sequence of update and reset calls the sample window
\* holds at most max_samples frame times, namely the most recent ones in
\* the order they came (the oldest is evicted first); frame_count is the
\* number of update calls since the construction or the last reset; and
\* reset empties the window and zeroes fps and frame_count.
C34_FpsWindowAndFrameCount ==
    /\ [](/\ Len(fps_counter.frame_times) <= fps_counter.max_samples
          /\ fps_counter.frame_times
                = LastOf(DeltasSinceReset(Len(calls)), fps_counter.max_samples)
          /\ frame_count(fps_counter) = Len(DeltasSinceReset(Len(calls))))
    /\ [][(/\ Len(calls') = Len(calls) + 1
           /\ calls'[Len(calls')].op = "reset")
              => /\ fps_counter'.frame_times = <<>>
                 /\ FpsCounter_fps(fps_counter') = 0
                 /\ frame_count(fps_counter') = 0]_vars

\* a window of two samples after three frames: the first frame time is gone
C34_Witness ==
    /\ Len(calls) = 4
    /\ fps_counter.max_samples = 2
    /\ calls[2].op = "update" /\ calls[2].a = 16
    /\ calls[3].op = "update" /\ calls[3].a = 33
    /\ calls[4].op = "update" /\ calls[4].a = 0 /\ calls[4].b = 500
    /\ fps_counter.frame_times = <<33, 0>>
    /\ frame_count(fps_counter) = 3
    /\ FpsCounter_fps(fps_counter) > 0

====
